---- MODULE Spec2Model ----
(***************************************************************************)
(* State-machine model of the sandboxed multi-language executor of         *)
(* CodeBridge: DockerExecutor.execute (core/executors/docker_executor.py), *)
(* the container engine it inherits (base_docker_executor.py) and the      *)
(* language strategies (language_strategy.py); beside it PythonExecutor     *)
(* (python_executor.py), ExecutionResult.format_result (base_executor.py)  *)
(* and the code-generation backends (core/models).                         *)
(*                                                                         *)
(* Text (source code, log output, error messages) is a sequence of word    *)
(* tokens; a substring test is a contiguous-subsequence test.              *)
(***************************************************************************)
EXTENDS Integers, Sequences, FiniteSets, TLC

VARIABLES
    client,      \* BaseDockerExecutor.client: "client", or "None" when ping failed
    config,      \* BaseDockerExecutor.config: the loaded configuration document
    faults,      \* may calls to the runtime and the file system fail in this run
    images,      \* the images present in the runtime's local store
    fs,          \* the temporary directories: whether each exists, and its files
    containers,  \* the containers that exist in the runtime
    nextCid,     \* the id the runtime gives the next container
    started,     \* the number of execute calls started so far
    calls,       \* per caller: the frame (locals, position) of its execute call
    engine,      \* the DockerExecutor object: its construction and its last query
    py,          \* PythonExecutor: the call in progress and the temp files on disk
    gen,         \* the code-generation backends and the request in progress
    shown,       \* an ExecutionResult and the text format_result made of it
    app          \* CodeConverterApp: its execution handler and its conversion requests

\* the state outside DockerExecutor
others == <<engine, py, gen, shown, app>>

vars == <<client, config, faults, images, fs, containers, nextCid, started, calls,
          engine, py, gen, shown, app>>

(***************************************************************************)
(* Bounds                                                                  *)
(***************************************************************************)
\* number of call slots (threads of control that may be inside execute)
NCalls == 2
\* total number of execute calls started in one behaviour
MaxCalls == 1
\* total number of PythonExecutor calls started in one behaviour
MaxPyCalls == 2
\* longest output or error text handed to the result formatter, in words
MaxTextLen == 2
\* total number of convert_code requests made to a backend in one behaviour
MaxConversions == 2
\* number of conversion requests CodeConverterApp serves at the same time
NRequests == 2

Calls == 1..NCalls
\* the names tempfile.mkdtemp draws from: enough for every call in flight
Dirs == 1..NCalls

\* the value of an unset local (temp_dir = None, no container handle)
None == 0

(***************************************************************************)
(* Text helpers                                                            *)
(***************************************************************************)
\* str.lower() on one word
LowerWord(w) ==
    CASE w = "C++" -> "c++"
      [] w = "Java" -> "java"
      [] w = "C#" -> "c#"
      [] w = "Read" -> "read"
      [] w = "Timeout" -> "timeout"
      [] w = "Permission" -> "permission"
      [] w = "No" -> "no"
      [] OTHER -> w

\* str.lower() on a text
Lower(t) == [i \in 1..Len(t) |-> LowerWord(t[i])]

\* pattern in text  (Python's substring operator)
Contains(t, pat) ==
    \E i \in 0..(Len(t) - Len(pat)) :
        \A j \in 1..Len(pat) : t[i + j] = pat[j]

(***************************************************************************)
(* Source snippets handed to execute                                       *)
(***************************************************************************)
SrcHelloA == <<"print_a">>
SrcFail == <<"print_a", "exit1">>
SrcLoop == <<"loop">>
SrcJava == <<"public", "class", "Main", "print_b">>
\* the word class, but no class declaration a name could be taken from
SrcNoName == <<"class", "{", "print_a">>

\* a class with an entry-point method
SrcEntryPoint == <<"class", "P", "{", "static", "void", "Main", "print_a">>
\* a helper class followed by a public class declared with a modifier
SrcFinal == <<"class", "Helper", "public", "final", "class", "Main", "print_b">>

Sources == {SrcHelloA, SrcFail, SrcLoop, SrcJava, SrcNoName, SrcEntryPoint, SrcFinal}
\* the sources concurrent callers submit
ConcurrentSources == {SrcHelloA, SrcLoop, SrcJava}

\* language identifiers handed to execute
LanguageInputs == {"C++", "java", "c#", "ruby", "go"}

(***************************************************************************)
(* Configuration (config/language_config.json as loaded by _load_config)   *)
(***************************************************************************)
CppConfig == [image |-> "gcc", working_dir |-> "/app", timeout |-> 2,
              compile_command |-> <<"g++", "code", ".cpp">>, run_command |-> <<"./code">>]
\* this entry leaves timeout and working_dir to their defaults
CppConfigDefaults == [image |-> "gcc",
              compile_command |-> <<"g++", "code", ".cpp">>, run_command |-> <<"./code">>]
JavaConfig == [image |-> "openjdk", working_dir |-> "/app", timeout |-> 3,
              compile_command |-> <<"javac", "{class_name}", ".java">>,
              run_command |-> <<"java", "{class_name}">>]
CsharpConfig == [image |-> "dotnet", working_dir |-> "/app", timeout |-> 3]
RubyConfig == [image |-> "ruby", working_dir |-> "/app", timeout |-> 2]

DockerSection == [memory_limit |-> "512m", network_disabled |-> TRUE]

\* the documents the engine may have been constructed with; keys in file order
ConfigFull ==
    [docker |-> DockerSection,
     keys |-> <<"c++", "java", "c#">>,
     languages |-> [k \in {"c++", "java", "c#"} |->
                      CASE k = "c++" -> CppConfig
                        [] k = "java" -> JavaConfig
                        [] OTHER -> CsharpConfig]]
ConfigExtra ==
    [docker |-> DockerSection,
     keys |-> <<"c++", "c#", "ruby">>,
     languages |-> [k \in {"c++", "c#", "ruby"} |->
                      CASE k = "c++" -> CppConfigDefaults
                        [] k = "c#" -> CsharpConfig
                        [] OTHER -> RubyConfig]]

Configs == {ConfigFull, ConfigExtra}

\* documents that parse but lack a section, or a language's command templates
ConfigNoLanguages == [docker |-> DockerSection]
ConfigNoDocker ==
    [keys |-> <<"c++">>, languages |-> [k \in {"c++"} |-> CppConfig]]
ConfigNoCommands ==
    [docker |-> DockerSection,
     keys |-> <<"c++">>,
     languages |-> [k \in {"c++"} |-> [image |-> "gcc"]]]
\* self.config before _load_config has returned
NoConfig == [unset |-> TRUE]

\* dict.get(key, default)
DictGet(d, key, default) == IF key \in DOMAIN d THEN d[key] ELSE default

(***************************************************************************)
(* Language strategies (language_strategy.py)                              *)
(***************************************************************************)
\* LanguageStrategyFactory._strategies
Strategies == {"c++", "java", "c#"}

\* LanguageStrategy.get_image / get_working_dir / get_timeout
get_image(cfg) == cfg.image
get_working_dir(cfg) == DictGet(cfg, "working_dir", "/tmp")
get_timeout(cfg) == DictGet(cfg, "timeout", 30)

\* \w+ matches this token
IsWord(tok) == tok \notin {"{", "}", "(", ")", ";"}

\* positions at which  public\s+class\s+(\w+)  matches
PublicClassAt(code) ==
    {i \in 1..(Len(code) - 2) :
        code[i] = "public" /\ code[i + 1] = "class" /\ IsWord(code[i + 2])}
\* positions at which  class\s+(\w+)  matches
ClassAt(code) ==
    {i \in 1..(Len(code) - 1) : code[i] = "class" /\ IsWord(code[i + 1])}

Min(S) == CHOOSE x \in S : \A y \in S : x <= y

\* variant: a source without a class declaration is named Main
extract_class_name_default(code) ==
    IF PublicClassAt(code) # {} THEN code[Min(PublicClassAt(code)) + 2]
    ELSE IF ClassAt(code) # {} THEN code[Min(ClassAt(code)) + 1]
    ELSE "Main"

\* JavaStrategy._extract_class_name; "" when no class declaration is found
extract_class_name(code) ==
    IF PublicClassAt(code) # {} THEN code[Min(PublicClassAt(code)) + 2]
    ELSE IF ClassAt(code) # {} THEN code[Min(ClassAt(code)) + 1]
    ELSE ""

\* str.format(class_name=...) on a command template
FormatClassName(template, class_name) ==
    [i \in 1..Len(template) |->
        IF template[i] = "{class_name}" THEN class_name ELSE template[i]]

WrapHeader == <<"using", "System", ";", "class", "Program", "{",
                "static", "void", "Main", "(", ")", "{">>
WrapFooter == <<"}", "}">>

\* CsharpStrategy._wrap_code
wrap_code(code) ==
    IF Contains(code, <<"static", "void", "Main">>) \/ Contains(code, <<"class">>)
    THEN code
    ELSE WrapHeader \o code \o WrapFooter

CsprojContent == <<"<Project>">>

NoPrep == [filename |-> <<>>, compile_cmd |-> <<>>, run_cmd |-> <<>>, class_name |-> ""]

\* What prepare_code does for a strategy, given the language's config entry:
\*   raises : the exception it raises, "" for none
\*   files  : the files it writes into the workspace (name -> content)
\*   info   : the returned prep_info
prepare_code(strategy, cfg, code) ==
    CASE strategy = "c++" ->
           IF {"compile_command", "run_command"} \subseteq DOMAIN cfg
           THEN [raises |-> "",
                 files |-> (<<"code", ".cpp">> :> code),
                 info |-> [NoPrep EXCEPT !.filename = <<"code", ".cpp">>,
                                         !.compile_cmd = cfg.compile_command,
                                         !.run_cmd = cfg.run_command]]
           ELSE [raises |-> "KeyError",
                 files |-> (<<"code", ".cpp">> :> code),
                 info |-> NoPrep]
      [] strategy = "java" ->
           LET class_name == extract_class_name(code) IN
           IF class_name = ""
           THEN [raises |-> "ValueError", files |-> <<>>, info |-> NoPrep]
           ELSE IF {"compile_command", "run_command"} \subseteq DOMAIN cfg
           THEN [raises |-> "",
                 files |-> (<<class_name, ".java">> :> code),
                 info |-> [filename |-> <<class_name, ".java">>,
                           class_name |-> class_name,
                           compile_cmd |-> FormatClassName(cfg.compile_command, class_name),
                           run_cmd |-> FormatClassName(cfg.run_command, class_name)]]
           ELSE [raises |-> "KeyError",
                 files |-> (<<class_name, ".java">> :> code),
                 info |-> NoPrep]
      [] OTHER ->
           [raises |-> "",
            files |-> (<<"Program", ".cs">> :> wrap_code(code))
                         @@ (<<"Program", ".csproj">> :> CsprojContent),
            info |-> [NoPrep EXCEPT !.filename = <<"Program", ".cs">>]]

\* The files prepare_code writes, in the order it writes them: each is
\* opened (created empty) and then written, one `with open(...)` after the
\* other; C# writes Program.cs before Program.csproj.
write_order(strategy, files) ==
    IF strategy = "c#"
    THEN <<<<"Program", ".cs">>, <<"Program", ".csproj">>>>
    ELSE LET name == CHOOSE n \in DOMAIN files : TRUE IN <<name>>

\* What is in the workspace when open() or write() raises in prepare_code:
\* the files written before the failing one, complete, and the failing one
\* absent (open() raised) or empty (open() created it, write() raised).
files_after_failed_write(strategy, files) ==
    LET order == write_order(strategy, files) IN
    {[n \in {order[i] : i \in 1..(k - 1)} \cup (IF opened THEN {order[k]} ELSE {})
         |-> IF n = order[k] THEN <<>> ELSE files[n]] :
        k \in 1..Len(order), opened \in BOOLEAN}

\* get_execution_command of each strategy
get_execution_command(strategy, prep_info) ==
    IF strategy = "c#"
    THEN <<"bash", "-c", "dotnet", "run">>
    ELSE <<"bash", "-c">> \o prep_info.compile_cmd \o <<"&&">> \o prep_info.run_cmd

\* message of the ValueError JavaStrategy.prepare_code raises
NoClassNameMsg == <<"Could", "not", "extract", "class", "name", "from", "Java", "code.">>

(***************************************************************************)
(* ExecutionResult (base_executor.py) and exceptions                       *)
(***************************************************************************)
ExecutionResult(success, output, error, execution_time) ==
    [success |-> success, output |-> output, error |-> error,
     execution_time |-> execution_time]

NoResult == ExecutionResult(FALSE, <<>>, <<>>, 0)

\* f"{execution_time:.3f}s"
FormatTime(t) ==
    CASE t = 0 -> "0.000s"
      [] t = 1 -> "1.000s"
      [] t = 2 -> "2.000s"
      [] t = 3 -> "3.000s"
      [] OTHER -> "30.000s"

\* variant: a body longer than one word is cut after its first word
format_result_truncating(r) ==
    <<"Execution", "Time:", FormatTime(r.execution_time)>>
       \o (IF r.success
           THEN <<"Execution", "Successful">>
                   \o (IF r.output # <<>>
                       THEN <<"**Output:**">> \o SubSeq(r.output, 1, 1)
                       ELSE <<"**Output:**", "(No", "output", "produced)">>)
           ELSE <<"Execution", "Failed">>
                   \o (IF r.error # <<>>
                       THEN <<"**Error:**">> \o SubSeq(r.error, 1, 1)
                       ELSE <<>>))

\* ExecutionResult.format_result
format_result(r) ==
    <<"Execution", "Time:", FormatTime(r.execution_time)>>
       \o (IF r.success
           THEN <<"Execution", "Successful">>
                   \o (IF r.output # <<>>
                       THEN <<"**Output:**">> \o r.output
                       ELSE <<"**Output:**", "(No", "output", "produced)">>)
           ELSE <<"Execution", "Failed">>
                   \o (IF r.error # <<>>
                       THEN <<"**Error:**">> \o r.error
                       ELSE <<>>))

\* the words of the texts handed to the formatter: program text, and words
\* the formatter itself writes
FormatWords == {"a", "**Error:**", "produced)"}
\* every text of at most n words
TextsUpTo(n) == UNION {[1..k -> FormatWords] : k \in 0..n}
\* the results handed to the formatter
FormatInputs ==
    {ExecutionResult(ok, out, err, t) :
        ok \in BOOLEAN, out \in TextsUpTo(MaxTextLen), err \in TextsUpTo(MaxTextLen),
        t \in {0, 1}}

\* no result formatted yet
NotShown == [pc |-> "idle", result |-> NoResult, text |-> <<>>]

NoExc == [type |-> "", msg |-> <<>>]
Exc(type, msg) == [type |-> type, msg |-> msg]
\* the KeyError a dict lookup raises for a missing key
KeyErrorOf(key) == Exc("KeyError", <<key>>)

\* str(e) of the errors the runtime and the file system raise
ErrNoSuchContainer == <<"404", "No", "such", "container">>
ErrReadTimeout == <<"Read", "timed", "out.", "read", "timeout">>
ErrPermission == <<"Permission", "denied">>
ErrNoSpace == <<"no", "space", "left", "on", "device">>
ErrRefused == <<"connection", "refused">>

\* isinstance(e, ValueError): the first except clause of execute
IsValueError(e) == e.type = "ValueError"

UnavailableMsg == <<"Docker", "is", "not", "available.">>

TimeoutDiagnostic ==
    <<"Execution", "timed", "out.", "infinite", "loop", "or", "taking", "too", "long.">>

\* variant: the error text is reported as the output of a successful run
handle_execution_error_as_output(error, execution_time) ==
    ExecutionResult(TRUE, error.msg, <<>>, execution_time)

\* BaseDockerExecutor._handle_execution_error
handle_execution_error(error, execution_time) ==
    LET error_msg ==
          IF Contains(error.msg, <<"No", "such", "container">>)
          THEN <<"Container", "was", "removed", "unexpectedly.">>
          ELSE IF Contains(Lower(error.msg), <<"timeout">>)
          THEN TimeoutDiagnostic
          ELSE IF Contains(Lower(error.msg), <<"permission", "denied">>)
          THEN <<"Permission", "denied.", "Check", "Docker", "permissions">>
          ELSE IF Contains(Lower(error.msg), <<"no", "space", "left">>)
          THEN <<"No", "disk", "space", "available">>
          ELSE <<"Execution", "failed:">> \o error.msg
    IN ExecutionResult(FALSE, <<>>, error_msg, execution_time)

\* variant: availability is not derived from the client kept at construction
is_available_always(cl) == TRUE

\* BaseDockerExecutor.is_available
is_available(cl) == cl # "None"

\* BaseDockerExecutor._initialize_docker: the client kept after from_env()+ping()
initialize_docker(up) == IF up THEN "client" ELSE "None"

\* BaseDockerExecutor.get_supported_languages
get_supported_languages(cfg) == cfg.keys

(***************************************************************************)
(* The isolation runtime: what a container does with its mounted workspace *)
(***************************************************************************)
\* the source file a build-and-run command refers to
MainFile(command) ==
    IF command[3] = "dotnet" THEN <<"Program", ".cs">> ELSE <<command[4], command[5]>>

IsPrint(tok) == tok \in {"print_a", "print_b"}

\* the program a container runs: the main file as found in its mount
Program(ct) ==
    IF MainFile(ct.command) \in DOMAIN ct.files
    THEN ct.files[MainFile(ct.command)]
    ELSE <<"exit1">>

\* does the program terminate, with which status, printing what
Exits(ct) == ~ Contains(Program(ct), <<"loop">>)
StatusCode(ct) == IF Contains(Program(ct), <<"exit1">>) THEN 1 ELSE 0
ContainerLogs(ct) == SelectSeq(Program(ct), IsPrint)
\* seconds a terminating program runs
RunTime == 1

ContainerOf(cid) == CHOOSE ct \in containers : ct.id = cid
ContainerExists(cid) == \E ct \in containers : ct.id = cid

(***************************************************************************)
(* PythonExecutor (python_executor.py) and FileManager (file_utils.py)     *)
(***************************************************************************)
\* Python snippets, one token per statement:
\*   print_a    print("a")
\*   warn       import sys; sys.stderr.write("warn")
\*   div0       1/0
\*   loop       while True: pass
\*   surrogate  print("\udc80")  (a character UTF-8 cannot encode)
\*   exit       raise print.__self__.SystemExit(3)
PySnippets ==
    {<<"print_a">>, <<"print_a", "warn">>, <<"warn", "print_a">>,
     <<"print_a", "div0">>, <<"print_a", "loop">>, <<"surrogate">>,
     <<"print_a", "exit">>}

IsWarn(tok) == tok = "warn"

\* the first statement of the snippet that is one of stops, or Len + 1
StopAt(code, stops) ==
    Min({i \in 1..Len(code) : code[i] \in stops} \cup {Len(code) + 1})

\* can the text be encoded as UTF-8
Encodable(code) == ~ Contains(code, <<"surrogate">>)

ErrSurrogate == <<"'utf-8'", "codec", "can't", "encode", "character">>
ErrImport == <<"__import__", "not", "found">>
ErrDivision == <<"division", "by", "zero">>
Traceback == <<"Traceback", "ZeroDivisionError:", "division", "by", "zero">>
PyTimeoutMsg == <<"Execution", "timed", "out", "(30s", "limit)">>

\* exec(code, safe_globals) with stdout and stderr captured (lines 28-59):
\* import is not among the allowed builtins, so nothing reaches stderr
\* raised: the exception the snippet raised, by class and message; SystemExit
\* derives from BaseException, not from Exception
exec_restricted(code) ==
    LET k == StopAt(code, {"warn", "div0", "loop", "exit"})
        quiet == [blocks |-> FALSE, raises |-> <<>>, raised |-> NoExc,
                  stdout |-> <<>>, stderr |-> <<>>]
    IN IF ~ Encodable(code)
       THEN [quiet EXCEPT !.raises = ErrSurrogate,
                          !.raised = Exc("UnicodeEncodeError", ErrSurrogate)]
       ELSE IF k > Len(code) THEN [quiet EXCEPT !.stdout = SelectSeq(code, IsPrint)]
       ELSE IF code[k] = "loop" THEN [quiet EXCEPT !.blocks = TRUE]
       ELSE IF code[k] = "warn"
       THEN [quiet EXCEPT !.raises = ErrImport, !.raised = Exc("ImportError", ErrImport)]
       ELSE IF code[k] = "exit"
       THEN [quiet EXCEPT !.raises = <<"3">>, !.raised = Exc("SystemExit", <<"3">>)]
       ELSE [quiet EXCEPT !.raises = ErrDivision,
                          !.raised = Exc("ZeroDivisionError", ErrDivision)]

\* except Exception (line 77): the classes it catches
python_catches(e) == e.type # "SystemExit"

\* PythonExecutor.is_available (lines 142-144)
python_is_available(executor) == TRUE

\* the result PythonExecutor.execute builds (lines 61-84)
python_execute(code) ==
    LET r == exec_restricted(code) IN
    IF r.raises # <<>>
    THEN ExecutionResult(FALSE, <<>>, r.raises, 0)
    ELSE ExecutionResult(Len(r.stderr) = 0, r.stdout, r.stderr, 0)

\* subprocess.run([sys.executable, temp_file], capture_output=True, timeout=30)
\* on a file with this content
subprocess_run(content) ==
    LET k == StopAt(content, {"div0", "loop", "exit"})
        ran == SubSeq(content, 1, k - 1)
        stopped == IF k > Len(content) THEN "" ELSE content[k]
    IN [timeout |-> stopped = "loop",
        returncode |-> IF stopped = "div0" THEN 1 ELSE IF stopped = "exit" THEN 3 ELSE 0,
        stdout |-> SelectSeq(ran, IsPrint),
        stderr |-> SelectSeq(ran, IsWarn)
                      \o (IF stopped = "div0" THEN Traceback ELSE <<>>)]

\* the result execute_file builds from a finished subprocess (lines 112-119)
execute_file_result(run, execution_time) ==
    ExecutionResult(run.returncode = 0, run.stdout, run.stderr, execution_time)

\* the result of the  except Exception  clause of execute_file (lines 129-136)
execute_file_failed(msg, execution_time) ==
    ExecutionResult(FALSE, <<>>, <<"Execution", "failed:">> \o msg, execution_time)

\* fixed limit handed to subprocess.run (line 109)
PyTimeout == 30

\* the names tempfile.NamedTemporaryFile draws from
TempNames == 1..MaxPyCalls
NoFile == [exists |-> FALSE, content |-> <<>>]

\* PythonExecutor with no call made: the frame of the call in progress, the
\* temp files on disk, and bookkeeping (created: the file made for the call,
\* raised: the steps that raised)
PyInit ==
    [pc |-> "idle", mode |-> "", code |-> <<>>, temp_file |-> None,
     result |-> NoResult, exc |-> NoExc, created |-> None, raised |-> {},
     started |-> 0,
     files |-> [n \in TempNames |-> NoFile]]

(***************************************************************************)
(* Code-generation backends (core/models)                                  *)
(***************************************************************************)
Backends == {"claude", "openai", "qwen"}
Hosted == {"claude", "openai"}

\* a hosted backend as its constructor or update_api_key leaves it: the
\* client exists exactly when the key is neither None nor empty
HostedModel(api_key) ==
    [api_key |-> api_key,
     client |-> IF api_key \in {"None", ""} THEN "None" ELSE api_key,
     loaded |-> FALSE, cuda |-> FALSE]
\* the local backend after _load_model: model and tokenizer, or neither
LocalModel(loaded, cuda) ==
    [api_key |-> "None", client |-> "None", loaded |-> loaded, cuda |-> cuda]

\* is_available of ClaudeModel, OpenAIModel and QwenModel
model_is_available(backend, m) ==
    IF backend = "qwen"
    THEN m.loaded /\ m.cuda
    ELSE m.api_key # "None" /\ m.client # "None"

\* the message convert_code raises with when the backend is not available
BackendUnavailableMsg(backend) ==
    CASE backend = "claude" ->
           <<"Claude", "API", "key", "is", "required", "but", "not", "provided.">>
      [] backend = "openai" ->
           <<"OpenAI", "API", "key", "is", "required", "but", "not", "provided.">>
      [] OTHER -> <<"Qwen", "model", "is", "not", "available.">>

\* how the except clause of convert_code starts its message
CallFailedPrefix(backend) ==
    CASE backend = "claude" -> <<"Claude", "API", "call", "failed:">>
      [] backend = "openai" -> <<"OpenAI", "API", "call", "failed:">>
      [] OTHER -> <<"Qwen", "model", "generation", "failed:">>

\* str(e) of the AttributeError of self.client.messages / self.client.chat
\* when self.client is None
ErrNoClientAttribute(backend) ==
    <<"'NoneType'", "object", "has", "no", "attribute",
      IF backend = "claude" THEN "messages" ELSE "chat">>

\* str(e) of what a remote call or a local generation raises
ErrConnection == <<"Connection", "error.">>
ErrAuthentication == <<"invalid", "x-api-key">>
RemoteErrors == {ErrConnection, ErrAuthentication}

\* the generated code, in the pieces a streamed response delivers it
Response == <<"int", "main">>

\* str(e) of what the tokenizer raises (QwenModel.convert_code, lines 67-87)
ErrTokenizer == <<"tokenizer", "error">>

\* the messages QwenModel.convert_code raises inside its try block before
\* any generation, as its except clause (line 97) finds them: an error of
\* apply_chat_template, the unexpected template type (line 78), and the
\* tokenization error as line 89 re-raises it
QwenPrepareErrors ==
    {ErrTokenizer,
     <<"Chat", "template", "returned", "unexpected", "type:">>,
     <<"Tokenization", "failed:", "tokenizer", "error.",
       "Input", "type:", "<class", "'str'>">>}

\* the generator object a streaming convert_code returns, before the caller's
\* first next(): none of the body of _generate_streaming has run.
\* remote: remote calls (or local generations) the body has started
NoStream == [pc |-> "open", text |-> <<>>, exc |-> NoExc, remote |-> 0]

\* a backend and no request made.  pc, stream, target, comments, exc and
\* text describe the latest convert_code call; streams are the generator
\* objects the calls have returned, in order, each at its own position
GenOf(backend, m) ==
    [backend |-> backend, model |-> m, pc |-> "idle", stream |-> FALSE,
     target |-> "", comments |-> FALSE, exc |-> NoExc, text |-> <<>>,
     streams |-> <<>>,
     \* bookkeeping: what is_available() answered for the request, remote
     \* calls made for the request, requests started
     available |-> FALSE, remote |-> 0, started |-> 0]

\* CodeConverterApp.__init__: ClaudeModel() constructed without a key
GenInit == GenOf("claude", HostedModel("None"))

(***************************************************************************)
(* CodeConverterApp (app.py)                                               *)
(***************************************************************************)
\* what dir() of an ExecutionResult offers to call (base_executor.py 14-38)
ExecutionResultMethods == {"to_dict", "format_result"}

ErrNoAttribute(name) ==
    <<"'ExecutionResult'", "object", "has", "no", "attribute", name>>

\* result.<name>(): the text it returns, or the AttributeError of the lookup
call_method(r, name) ==
    IF name = "format_result"
    THEN [raises |-> NoExc, value |-> format_result(r)]
    ELSE IF name \in ExecutionResultMethods
    THEN [raises |-> NoExc, value |-> <<>>]
    ELSE [raises |-> Exc("AttributeError", ErrNoAttribute(name)), value |-> <<>>]

\* the method the handlers call on the executor's result (lines 132 and 156)
HandlerMethod == "format_results"

\* the last lines of both handlers:  return result.format_results()  inside
\* try ... except Exception as e: return f"Execution Failed: {str(e)}"
handler_return(r) ==
    LET m == call_method(r, HandlerMethod) IN
    IF m.raises = NoExc THEN m.value
    ELSE <<"Execution", "Failed:">> \o m.raises.msg

\* a line _clean_code_output drops: a code fence or a status message
IsMarkup(tok) == tok \in {"fence", "**Conversion"}
IsCode(tok) == ~ IsMarkup(tok)
\* CodeConverterApp._clean_code_output
clean_code_output(output) == SelectSeq(output, IsCode)

\* the converted code as the interface hands it to execute_converted_code
ConvertedOutputs ==
    {<<>>, <<"fence", "print_a", "fence">>, <<"**Conversion", "loop">>,
     <<"print_a", "exit1">>}

ErrEmptyInput == <<"**Error:**", "No", "code", "to", "execute.">>
ErrDockerMissing == <<"**Error:**", "Docker", "is", "not", "available.">>
ErrNotSupported(language, supported) ==
    <<"**Error:**", "Language", language, "is", "not", "supported.">> \o supported

\* a handler not called yet.  seen: the number of execute calls started
\* before the handler; given: did the executor return a result
NoHandler ==
    [pc |-> "idle", op |-> "", code |-> <<>>, language |-> "", seen |-> 0,
     given |-> FALSE, result |-> NoResult, text |-> <<>>, exc |-> NoExc]

Requests == 1..NRequests
\* the API key typed into request r
KeyOf(r) == CASE r = 1 -> "k1" [] r = 2 -> "k2" [] OTHER -> "k3"

\* a conversion request not made yet.  used: the key of the client the
\* backend call was made with
NoRequest == [pc |-> "idle", used |-> "None", text |-> <<>>]

\* CodeConverterApp.__init__ (lines 22-38): hosted models without a key
AppOf(backend) ==
    [handler |-> NoHandler, backend |-> backend, model |-> HostedModel("None"),
     current_key |-> "None", requests |-> [r \in Requests |-> NoRequest]]
AppInit == AppOf("claude")

(***************************************************************************)
(* State                                                                   *)
(***************************************************************************)
NoDir == [exists |-> FALSE, files |-> <<>>]


InitCall ==
    [pc |-> "idle", code |-> <<>>, language |-> "", strategy |-> "",
     temp_dir |-> None, prep_info |-> NoPrep, command |-> <<>>,
     container |-> None, exit_code |-> 0, logs |-> <<>>, exc |-> NoExc,
     wait_exc |-> NoExc, result |-> NoResult, elapsed |-> 0, wait_elapsed |-> 0,
     \* bookkeeping: the container containers.run created for this call, the
     \* steps the call has run, in order, and the steps that raised
     made |-> None, trace |-> <<>>, raised |-> {}]

(***************************************************************************)
(* Engine construction (BaseDockerExecutor.__init__) and its queries       *)
(***************************************************************************)
\* the configuration file as found when the engine is constructed
FileAbsent == [kind |-> "absent", doc |-> NoConfig]
FileInvalid == [kind |-> "invalid", doc |-> NoConfig]
FileOf(doc) == [kind |-> "document", doc |-> doc]

ConfigFiles ==
    {FileAbsent, FileInvalid}
        \cup {FileOf(doc) : doc \in Configs \cup {ConfigNoLanguages, ConfigNoDocker,
                                                   ConfigNoCommands}}

\* BaseDockerExecutor._load_config: the raised exception, or the document
load_config(file) ==
    CASE file.kind = "absent" ->
           [raises |-> Exc("FileNotFoundError",
                           <<"Configuration", "file", "not", "found:">>),
            value |-> NoConfig]
      [] file.kind = "invalid" ->
           [raises |-> Exc("ValueError",
                           <<"Invalid", "JSON", "in", "configuration", "file:">>),
            value |-> NoConfig]
      [] OTHER -> [raises |-> NoExc, value |-> file.doc]

\* what a query returned or raised
NoAnswer == [op |-> "", language |-> "", raises |-> NoExc, list |-> <<>>,
             flag |-> FALSE, info |-> <<>>]

\* the engine object once __init__ has returned
Constructed(file) ==
    [pc |-> "constructed", file |-> file, error |-> NoExc, answer |-> NoAnswer]
\* the engine object as __init__ starts
NotConstructed(file) ==
    [pc |-> "new", file |-> file, error |-> NoExc, answer |-> NoAnswer]

\* The state after DockerExecutor() has been constructed.
Init ==
    /\ \E reachable \in BOOLEAN : client = initialize_docker(reachable)
    /\ config \in Configs
    /\ engine = Constructed(FileOf(config))
    /\ py = PyInit
    /\ gen = GenInit
    /\ shown = NotShown
    /\ app = AppInit
    /\ faults \in BOOLEAN
    /\ images \in {{}, {"gcc", "openjdk", "dotnet", "ruby"}}
    /\ fs = [d \in Dirs |-> NoDir]
    /\ containers = {}
    /\ nextCid = 1
    /\ started = 0
    /\ calls = [c \in Calls |-> InitCall]

\* record one step of call c, changing fields of its frame
Upd(c, frame) == calls' = [calls EXCEPT ![c] = frame]
At(c, pc) == calls[c].pc = pc
Log(c, ev) == Append(calls[c].trace, ev)

\* an exception raised in the try block of execute
Raise(c, e, ev) ==
    Upd(c, [calls[c] EXCEPT !.pc = "except", !.exc = e, !.trace = Log(c, ev),
                            !.raised = @ \cup {ev}])

\* variant: the image is ensured before the command is derived
after_image_first(step) ==
    CASE step = "is_available" -> "get_language_config"
      [] step = "get_language_config" -> "create_strategy"
      [] step = "create_strategy" -> "create_temp_directory"
      [] step = "create_temp_directory" -> "prepare_code"
      [] step = "prepare_code" -> "ensure_image_available"
      [] step = "ensure_image_available" -> "get_execution_command"
      [] step = "get_execution_command" -> "create_container"
      [] step = "create_container" -> "wait"

\* variant: a container is created again after one has been created
after_recreating(step) ==
    CASE step = "is_available" -> "get_language_config"
      [] step = "get_language_config" -> "create_strategy"
      [] step = "create_strategy" -> "create_temp_directory"
      [] step = "create_temp_directory" -> "prepare_code"
      [] step = "prepare_code" -> "get_execution_command"
      [] step = "get_execution_command" -> "ensure_image_available"
      [] step = "ensure_image_available" -> "create_container"
      [] step = "create_container" -> "create_container"

\* the step execute runs after a step that returned normally (lines 38-57)
after(step) ==
    CASE step = "is_available" -> "get_language_config"
      [] step = "get_language_config" -> "create_strategy"
      [] step = "create_strategy" -> "create_temp_directory"
      [] step = "create_temp_directory" -> "prepare_code"
      [] step = "prepare_code" -> "get_execution_command"
      [] step = "get_execution_command" -> "ensure_image_available"
      [] step = "ensure_image_available" -> "create_container"
      [] step = "create_container" -> "wait"

\* BaseDockerExecutor.get_language_config: the raised ValueError, or the entry
get_language_config(cfg, language) ==
    LET lang == LowerWord(language) IN
    IF "languages" \notin DOMAIN cfg
    THEN [raises |-> KeyErrorOf("languages"), value |-> <<>>]
    ELSE IF lang \notin DOMAIN cfg.languages
    THEN [raises |-> Exc("ValueError",
                         <<"Unsupported", "language:", lang, "Supported:">>
                            \o get_supported_languages(cfg)),
          value |-> <<>>]
    ELSE [raises |-> NoExc, value |-> cfg.languages[lang]]

\* variant: an unregistered language falls back to a default strategy
create_strategy_fallback(language) ==
    LET lang == LowerWord(language) IN
    [raises |-> NoExc, value |-> IF lang \in Strategies THEN lang ELSE "c#"]

\* LanguageStrategyFactory.create_strategy: the raised ValueError, or the strategy
create_strategy(language) ==
    LET lang == LowerWord(language) IN
    IF lang \notin Strategies
    THEN [raises |-> Exc("ValueError", <<"Unsupported", "language:", lang>>),
          value |-> ""]
    ELSE [raises |-> NoExc, value |-> lang]

\* variant: the second except clause catches runtime (Docker) errors only
IsException_docker_only(e) == e.type = "DockerException"

\* the classes caught by  except Exception
IsException(e) == e.type \in {"ValueError", "KeyError", "OSError", "DockerException"}

\* the language_config local of call c
ConfigOf(c) == config.languages[LowerWord(calls[c].language)]

(***************************************************************************)
(* DockerExecutor.execute, one action per step                             *)
(***************************************************************************)
\* lines 25-34: availability check and entry into the try block
Execute(c, code, language) ==
    /\ calls[c].pc \in {"idle", "returned", "raised"}
    /\ started' = started + 1
    /\ LET frame == [InitCall EXCEPT !.code = code, !.language = language,
                                       !.trace = <<"is_available">>]
       IN IF ~ is_available(client)
          THEN Upd(c, [frame EXCEPT !.pc = "returned",
                          !.result = ExecutionResult(FALSE, <<>>, UnavailableMsg, 0)])
          ELSE Upd(c, [frame EXCEPT !.pc = after("is_available")])
    /\ UNCHANGED <<others, client, config, faults, images, fs, containers, nextCid>>

\* line 38
GetLanguageConfig(c) ==
    /\ At(c, "get_language_config")
    /\ LET r == get_language_config(config, calls[c].language) IN
       IF r.raises # NoExc
       THEN Raise(c, r.raises, "get_language_config")
       ELSE Upd(c, [calls[c] EXCEPT !.pc = after("get_language_config"),
                                    !.trace = Log(c, "get_language_config")])
    /\ UNCHANGED <<others, client, config, faults, images, fs, containers, nextCid, started>>

\* line 39
CreateStrategy(c) ==
    /\ At(c, "create_strategy")
    /\ LET r == create_strategy(calls[c].language) IN
       IF r.raises # NoExc
       THEN Raise(c, r.raises, "create_strategy")
       ELSE Upd(c, [calls[c] EXCEPT !.pc = after("create_strategy"),
                                    !.strategy = r.value,
                                    !.trace = Log(c, "create_strategy")])
    /\ UNCHANGED <<others, client, config, faults, images, fs, containers, nextCid, started>>

\* variant: every call works in one fixed directory
create_temp_directory_fixed(files) == {1}

\* tempfile.mkdtemp: a directory under a name that does not exist yet (names
\* are interchangeable: the first unused one stands for any of them)
create_temp_directory(files) ==
    {d \in Dirs : ~ files[d].exists /\ \A e \in 1..(d - 1) : files[e].exists}

\* line 41
CreateTempDirectory(c) ==
    /\ At(c, "create_temp_directory")
    /\ \/ \E d \in create_temp_directory(fs) :
            /\ fs' = [fs EXCEPT ![d] = [exists |-> TRUE, files |-> <<>>]]
            /\ Upd(c, [calls[c] EXCEPT !.pc = after("create_temp_directory"),
                                       !.temp_dir = d,
                                       !.trace = Log(c, "create_temp_directory")])
       \/ /\ faults
          /\ Raise(c, Exc("OSError", ErrNoSpace), "create_temp_directory")
          /\ UNCHANGED fs
    /\ UNCHANGED <<others, client, config, faults, images, containers, nextCid, started>>

\* variant: JavaStrategy keeps the formatted compile command in self.config
config_after_prepare_formatted(strategy, cfg, code) ==
    IF strategy = "java" /\ "compile_command" \in DOMAIN cfg
                         /\ extract_class_name(code) # ""
    THEN [cfg EXCEPT !.compile_command = FormatClassName(@, extract_class_name(code))]
    ELSE cfg

\* self.config of the strategy after prepare_code.  LanguageStrategy.__init__
\* keeps the very dict get_language_config returned, an entry of the
\* engine's table; the strategies read it and never assign to it.
config_after_prepare(strategy, cfg, code) == cfg

\* line 42
PrepareCode(c) ==
    /\ At(c, "prepare_code")
    /\ config' = [config EXCEPT !.languages[LowerWord(calls[c].language)] =
                     config_after_prepare(calls[c].strategy, ConfigOf(c), calls[c].code)]
    /\ LET p == prepare_code(calls[c].strategy, ConfigOf(c), calls[c].code)
           d == calls[c].temp_dir
       IN \/ /\ p.raises = ""
             /\ fs' = [fs EXCEPT ![d].files = p.files @@ @]
             /\ Upd(c, [calls[c] EXCEPT !.pc = after("prepare_code"),
                                        !.prep_info = p.info,
                                        !.trace = Log(c, "prepare_code")])
          \/ /\ p.raises = "KeyError"
             /\ fs' = [fs EXCEPT ![d].files = p.files @@ @]
             /\ Raise(c, KeyErrorOf("compile_command"), "prepare_code")
          \/ /\ p.raises = "ValueError"
             /\ UNCHANGED fs
             /\ Raise(c, Exc("ValueError", NoClassNameMsg), "prepare_code")
          \/ \* open() or write() fails
             /\ faults /\ p.raises # "ValueError"
             /\ \E left \in files_after_failed_write(calls[c].strategy, p.files) :
                   fs' = [fs EXCEPT ![d].files = left @@ @]
             /\ \E msg \in {ErrPermission, ErrNoSpace} :
                   Raise(c, Exc("OSError", msg), "prepare_code")
    /\ UNCHANGED <<others, client, faults, images, containers, nextCid, started>>

\* line 44
GetExecutionCommand(c) ==
    /\ At(c, "get_execution_command")
    /\ Upd(c, [calls[c] EXCEPT
                 !.pc = after("get_execution_command"),
                 !.command = get_execution_command(calls[c].strategy, calls[c].prep_info),
                 !.trace = Log(c, "get_execution_command")])
    /\ UNCHANGED <<others, client, config, faults, images, fs, containers, nextCid, started>>

\* lines 47-48, _ensure_image_available: client.images.get
EnsureImageAvailable(c) ==
    /\ At(c, "ensure_image_available")
    /\ \/ /\ IF get_image(ConfigOf(c)) \in images
             THEN Upd(c, [calls[c] EXCEPT !.pc = after("ensure_image_available"),
                                          !.trace = Log(c, "images.get")])
             ELSE Upd(c, [calls[c] EXCEPT !.pc = "pull",
                                          !.trace = Log(c, "images.get")])
       \/ /\ faults
          /\ Raise(c, Exc("DockerException", ErrRefused), "images.get")
    /\ UNCHANGED <<others, client, config, faults, images, fs, containers, nextCid, started>>

\* _ensure_image_available: client.images.pull after ImageNotFound
PullImage(c) ==
    /\ At(c, "pull")
    /\ \/ /\ images' = images \cup {get_image(ConfigOf(c))}
          /\ Upd(c, [calls[c] EXCEPT !.pc = after("ensure_image_available"),
                                       !.trace = Log(c, "images.pull")])
       \/ /\ faults
          /\ UNCHANGED images
          /\ \E msg \in {ErrRefused, ErrReadTimeout} :
                Raise(c, Exc("DockerException", msg), "images.pull")
    /\ UNCHANGED <<others, client, config, faults, fs, containers, nextCid, started>>

\* variant: the runtime is asked to remove the container once it has exited
container_options_auto_remove(docker_config) ==
    [detach |-> TRUE, remove |-> TRUE,
     mem_limit |-> DictGet(docker_config, "memory_limit", "512m"),
     network_disabled |-> DictGet(docker_config, "network_disabled", TRUE)]

\* the fixed and the configured keyword arguments of containers.run (lines 75-80)
container_options(docker_config) ==
    [detach |-> TRUE, remove |-> FALSE,
     mem_limit |-> DictGet(docker_config, "memory_limit", "512m"),
     network_disabled |-> DictGet(docker_config, "network_disabled", TRUE)]

\* the container client.containers.run(detach=True, remove=False, ...) creates
NewContainer(c) ==
    [id |-> nextCid,
     image |-> get_image(ConfigOf(c)),
     command |-> calls[c].command,
     mount |-> calls[c].temp_dir,
     working_dir |-> get_working_dir(ConfigOf(c)),
     auto_remove |-> container_options(config.docker).remove,
     files |-> fs[calls[c].temp_dir].files]

\* lines 50-55, _create_container.  containers.run creates the container and
\* then starts it: it can fail before the container exists, or after.
CreateContainer(c) ==
    /\ At(c, "create_container")
    /\ \/ \* line 68: self.config['docker']
          /\ "docker" \notin DOMAIN config
          /\ UNCHANGED <<containers, nextCid>>
          /\ Raise(c, KeyErrorOf("docker"), "create_container")
       \/ /\ "docker" \in DOMAIN config
          /\ containers' = containers \cup {NewContainer(c)}
          /\ nextCid' = nextCid + 1
          /\ Upd(c, [calls[c] EXCEPT !.pc = after("create_container"),
                                       !.container = nextCid, !.made = nextCid,
                                       !.trace = Log(c, "containers.run")])
       \/ /\ faults /\ "docker" \in DOMAIN config
          /\ UNCHANGED <<containers, nextCid>>
          /\ \E msg \in {ErrRefused, ErrPermission} :
                Raise(c, Exc("DockerException", msg), "containers.run")
       \/ /\ faults /\ "docker" \in DOMAIN config
          /\ containers' = containers \cup {NewContainer(c)}
          /\ nextCid' = nextCid + 1
          /\ Upd(c, [calls[c] EXCEPT !.pc = "except", !.made = nextCid,
                       !.exc = Exc("DockerException", ErrPermission),
                       !.trace = Log(c, "containers.run"),
                       !.raised = @ \cup {"containers.run"}])
    /\ UNCHANGED <<others, client, config, faults, images, fs, started>>

(***************************************************************************)
(* BaseDockerExecutor._wait_for_container (execute line 57)                *)
(***************************************************************************)
\* an exception caught by the except clause of _wait_for_container
RaiseInWait(c, e, ev, dt) ==
    Upd(c, [calls[c] EXCEPT !.pc = "wait_except", !.wait_exc = e,
                            !.elapsed = @ + dt, !.wait_elapsed = @ + dt,
                            !.trace = Log(c, ev), !.raised = @ \cup {ev}])

\* variant: the logs are reported as output whatever the exit code
wait_result_output_only(exit_code, logs, execution_time) ==
    ExecutionResult(exit_code = 0, logs, <<>>, execution_time)

\* the result built from the exit code and the logs (lines 104-122)
wait_result(exit_code, logs, execution_time) ==
    IF exit_code = 0
    THEN ExecutionResult(TRUE, logs, <<>>, execution_time)
    ELSE ExecutionResult(FALSE, <<>>, logs, execution_time)

\* variant: the recovered logs are left out of the message
wait_error_result_no_logs(e, logs, execution_time) ==
    ExecutionResult(FALSE, <<>>,
        <<"Container", "execution", "error:">> \o e.msg \o <<"Logs:">>,
        execution_time)

\* the result built by the except clause (lines 124-139)
wait_error_result(e, logs, execution_time) ==
    ExecutionResult(FALSE, <<>>,
        <<"Container", "execution", "error:">> \o e.msg \o <<"Logs:">> \o logs,
        execution_time)

\* variant: container.wait is called without a limit
wait_limit_none(timeout) == None

\* line 98: the limit handed to container.wait, None for no limit
wait_limit(timeout) == timeout

\* line 98: container.wait(timeout=timeout).  The runtime itself removes a
\* container created with remove=True once it has exited.
WaitForContainer(c) ==
    /\ At(c, "wait")
    /\ LET ct == ContainerOf(calls[c].container)
           limit == wait_limit(get_timeout(ConfigOf(c)))
       IN \/ /\ Exits(ct) /\ (limit = None \/ RunTime <= limit)
             /\ containers' = IF ct.auto_remove THEN containers \ {ct} ELSE containers
             /\ Upd(c, [calls[c] EXCEPT !.pc = "logs",
                          !.exit_code = StatusCode(ct),
                          !.elapsed = @ + RunTime, !.wait_elapsed = @ + RunTime,
                          !.trace = Log(c, "wait")])
          \/ /\ limit # None /\ ~ (Exits(ct) /\ RunTime <= limit)
             /\ UNCHANGED containers
             /\ RaiseInWait(c, Exc("DockerException", ErrReadTimeout), "wait", limit)
          \/ \E msg \in {ErrNoSuchContainer, ErrRefused} :
                /\ faults /\ UNCHANGED containers
                /\ RaiseInWait(c, Exc("DockerException", msg), "wait", 0)
    /\ UNCHANGED <<others, client, config, faults, images, fs, nextCid, started>>

\* lines 99-122: container.logs(...).decode('utf-8') and the result
CollectLogs(c) ==
    /\ At(c, "logs")
    /\ LET ct == ContainerOf(calls[c].container) IN
       \/ /\ ~ ContainerExists(calls[c].container)
          /\ RaiseInWait(c, Exc("DockerException", ErrNoSuchContainer), "logs", 0)
       \/ /\ ContainerExists(calls[c].container)
          /\ Upd(c, [calls[c] EXCEPT
                       !.pc = "cleanup_container",
                       !.logs = ContainerLogs(ct),
                       !.result = wait_result(calls[c].exit_code, ContainerLogs(ct),
                                              calls[c].wait_elapsed),
                       !.trace = Log(c, "logs")])
       \/ /\ faults
          /\ RaiseInWait(c, Exc("DockerException", ErrRefused), "logs", 0)
    /\ UNCHANGED <<others, client, config, faults, images, fs, containers, nextCid, started>>

\* lines 124-139: the except clause, with its best-effort second logs call
WaitExcept(c) ==
    /\ At(c, "wait_except")
    /\ LET ct == ContainerOf(calls[c].container) IN
       \/ /\ ContainerExists(calls[c].container)
          /\ Upd(c, [calls[c] EXCEPT
                    !.pc = "cleanup_container",
                    !.logs = ContainerLogs(ct),
                    !.result = wait_error_result(calls[c].wait_exc, ContainerLogs(ct),
                                                 calls[c].wait_elapsed),
                    !.trace = Log(c, "logs_retry")])
       \/ /\ faults \/ ~ ContainerExists(calls[c].container)
          /\ Upd(c, [calls[c] EXCEPT
                    !.pc = "cleanup_container",
                    !.logs = <<>>,
                    !.result = wait_error_result(calls[c].wait_exc, <<>>,
                                                 calls[c].wait_elapsed),
                    !.trace = Log(c, "logs_retry"),
                    !.raised = @ \cup {"logs_retry"}])
    /\ UNCHANGED <<others, client, config, faults, images, fs, containers, nextCid, started>>

\* variant: an error raised by a cleanup step becomes the result
cleanup_failed_masking(result, e) ==
    ExecutionResult(FALSE, <<>>, e.msg, result.execution_time)

\* the result after a cleanup step raised e:  except Exception: pass
\* (_cleanup_container lines 146-149, _cleanup_temp_directory lines 157-161)
cleanup_failed(result, e) == result

\* lines 140-149: finally: _cleanup_container, container.remove(force=True)
CleanupContainer(c) ==
    /\ At(c, "cleanup_container")
    /\ \/ /\ containers' = {ct \in containers : ct.id # calls[c].container}
          /\ Upd(c, [calls[c] EXCEPT !.pc = "finally", !.trace = Log(c, "remove")])
       \/ /\ faults
          /\ UNCHANGED containers
          /\ \E msg \in {ErrRefused, ErrNoSuchContainer} :
                Upd(c, [calls[c] EXCEPT
                          !.pc = "finally", !.trace = Log(c, "remove"),
                          !.result = cleanup_failed(@, Exc("DockerException", msg)),
                          !.raised = @ \cup {"remove"}])
    /\ UNCHANGED <<others, client, config, faults, images, fs, nextCid, started>>

(***************************************************************************)
(* execute: except clauses and finally (lines 61-77)                       *)
(***************************************************************************)
\* the except clause that catches the pending exception, and its result
Except(c) ==
    /\ At(c, "except")
    /\ LET e == calls[c].exc
           execution_time == calls[c].elapsed
       IN IF IsValueError(e)
          THEN Upd(c, [calls[c] EXCEPT !.pc = "finally", !.exc = NoExc,
                          !.result = ExecutionResult(FALSE, <<>>, e.msg, execution_time)])
          ELSE IF IsException(e)
          THEN Upd(c, [calls[c] EXCEPT !.pc = "finally", !.exc = NoExc,
                          !.result = handle_execution_error(e, execution_time)])
          ELSE Upd(c, [calls[c] EXCEPT !.pc = "finally"])
    /\ UNCHANGED <<others, client, config, faults, images, fs, containers, nextCid, started>>

\* variant: the workspace is never cleaned up
cleans_up_never(temp_dir) == FALSE

\* does the finally clause of execute call _cleanup_temp_directory
cleans_up(temp_dir) == temp_dir # None

\* lines 75-77 and _cleanup_temp_directory (shutil.rmtree, errors ignored);
\* execute then returns the result, or the uncaught exception propagates
Finally(c) ==
    /\ At(c, "finally")
    /\ LET d == calls[c].temp_dir
           pc == IF calls[c].exc = NoExc THEN "returned" ELSE "raised"
       IN IF cleans_up(d)
          THEN \/ /\ fs' = [fs EXCEPT ![d] = NoDir]
                  /\ Upd(c, [calls[c] EXCEPT !.pc = pc,
                               !.trace = Log(c, "cleanup_temp_directory")])
               \/ /\ faults /\ fs[d].exists
                  /\ UNCHANGED fs
                  /\ Upd(c, [calls[c] EXCEPT !.pc = pc,
                               !.trace = Log(c, "cleanup_temp_directory"),
                               !.result = cleanup_failed(@, Exc("OSError", ErrPermission)),
                               !.raised = @ \cup {"cleanup_temp_directory"}])
          ELSE /\ UNCHANGED fs
               /\ Upd(c, [calls[c] EXCEPT !.pc = pc])
    /\ UNCHANGED <<others, client, config, faults, images, containers, nextCid, started>>

\* one caller at a time: any source, any language identifier
Call ==
    /\ started < MaxCalls
    /\ \E code \in Sources, language \in LanguageInputs : Execute(1, code, language)

\* concurrent callers, each with a source no other caller has submitted
ConcurrentCall ==
    \E c \in Calls, code \in ConcurrentSources, language \in {"C++", "go"} :
        /\ calls[c].pc = "idle"
        /\ \A d \in Calls \ {c} : calls[d].code # code
        /\ Execute(c, code, language)

Step ==
    \E c \in Calls :
        \/ GetLanguageConfig(c)
        \/ CreateStrategy(c)
        \/ CreateTempDirectory(c)
        \/ PrepareCode(c)
        \/ GetExecutionCommand(c)
        \/ EnsureImageAvailable(c)
        \/ PullImage(c)
        \/ CreateContainer(c)
        \/ WaitForContainer(c)
        \/ CollectLogs(c)
        \/ WaitExcept(c)
        \/ CleanupContainer(c)
        \/ Except(c)
        \/ Finally(c)

Next == Call \/ Step

\* a single caller; runtime and file-system calls may fail
InitFaulty == Init /\ faults = TRUE

Spec == InitFaulty /\ [][Next]_vars

NextConcurrent == ConcurrentCall \/ Step

\* a caller inside execute keeps running: each of its steps returns or raises
SpecLive == Init /\ [][Next]_vars /\ WF_vars(Step)

(***************************************************************************)
(* The engine from its construction on                                     *)
(***************************************************************************)
\* lines 15-18 and DockerExecutor.__init__: _load_config, _initialize_docker
Construct ==
    /\ engine.pc = "new"
    /\ LET r == load_config(engine.file) IN
       IF r.raises # NoExc
       THEN /\ engine' = [engine EXCEPT !.pc = "failed", !.error = r.raises]
            /\ UNCHANGED <<client, config>>
       ELSE /\ config' = r.value
            /\ \E reachable \in BOOLEAN : client' = initialize_docker(reachable)
            /\ engine' = [engine EXCEPT !.pc = "constructed"]
    /\ UNCHANGED <<faults, images, fs, containers, nextCid, started, calls,
                   py, gen, shown, app>>

\* BaseDockerExecutor.get_supported_languages as a call on the engine
GetSupportedLanguages ==
    /\ engine.pc = "constructed"
    /\ engine' = [engine EXCEPT !.answer =
          IF "languages" \in DOMAIN config
          THEN [NoAnswer EXCEPT !.op = "get_supported_languages",
                                !.list = get_supported_languages(config)]
          ELSE [NoAnswer EXCEPT !.op = "get_supported_languages",
                                !.raises = KeyErrorOf("languages")]]
    /\ UNCHANGED <<client, config, faults, images, fs, containers, nextCid,
                   started, calls, py, gen, shown, app>>

\* DockerExecutor.validate_language_support
ValidateLanguageSupport(language) ==
    /\ engine.pc = "constructed"
    /\ LET r == get_language_config(config, language)
           a == [NoAnswer EXCEPT !.op = "validate_language_support",
                                 !.language = language]
       IN engine' = [engine EXCEPT !.answer =
             IF r.raises = NoExc THEN [a EXCEPT !.flag = TRUE]
             ELSE IF IsValueError(r.raises) THEN [a EXCEPT !.flag = FALSE]
             ELSE [a EXCEPT !.raises = r.raises]]
    /\ UNCHANGED <<client, config, faults, images, fs, containers, nextCid,
                   started, calls, py, gen, shown, app>>

\* the dict DockerExecutor.get_language_info returns (lines 89-102)
get_language_info(cfg, language) ==
    LET r == get_language_config(cfg, language)
        s == create_strategy(language)
    IN IF r.raises # NoExc THEN [error |-> r.raises.msg]
       ELSE IF s.raises # NoExc THEN [error |-> s.raises.msg]
       ELSE IF "image" \notin DOMAIN r.value THEN [error |-> <<"image">>]
       ELSE [language |-> language,
             image |-> get_image(r.value),
             working_dir |-> get_working_dir(r.value),
             timeout |-> get_timeout(r.value),
             file_extension |-> DictGet(r.value, "file_extension", ""),
             project_based |-> DictGet(r.value, "project_based", FALSE)]

\* DockerExecutor.get_language_info as a call on the engine
GetLanguageInfo(language) ==
    /\ engine.pc = "constructed"
    /\ engine' = [engine EXCEPT !.answer =
          [NoAnswer EXCEPT !.op = "get_language_info", !.language = language,
                           !.info = get_language_info(config, language)]]
    /\ UNCHANGED <<client, config, faults, images, fs, containers, nextCid,
                   started, calls, py, gen, shown, app>>

\* execute on a constructed engine
EngineCall == engine.pc = "constructed" /\ Call

NextEngine ==
    \/ Construct
    \/ EngineCall
    \/ GetSupportedLanguages
    \/ \E language \in LanguageInputs : ValidateLanguageSupport(language)
    \/ \E language \in LanguageInputs : GetLanguageInfo(language)
    \/ Step

\* before construction: any configuration file; runtime calls succeed
InitNew ==
    /\ client = "None"
    /\ config = NoConfig
    /\ engine \in {NotConstructed(file) : file \in ConfigFiles}
    /\ faults = FALSE
    /\ images \in {{}, {"gcc", "openjdk", "dotnet", "ruby"}}
    /\ fs = [d \in Dirs |-> NoDir]
    /\ containers = {}
    /\ nextCid = 1
    /\ started = 0
    /\ calls = [c \in Calls |-> InitCall]
    /\ py = PyInit
    /\ gen = GenInit
    /\ shown = NotShown
    /\ app = AppInit

SpecEngine == InitNew /\ [][NextEngine]_vars

(***************************************************************************)
(* PythonExecutor.execute and execute_file                                 *)
(***************************************************************************)
dockerVars == <<client, config, faults, images, fs, containers, nextCid, started,
             calls, engine>>

PyFrame(mode, code) ==
    [py EXCEPT !.pc = mode, !.mode = mode, !.code = code, !.temp_file = None,
               !.result = NoResult, !.exc = NoExc, !.created = None,
               !.raised = {}, !.started = @ + 1]

\* PythonExecutor.execute (lines 16-84): runs the snippet in-process; a
\* snippet that never ends never returns, and an exception the except clause
\* does not catch leaves execute
PyExecuteFrame(code) ==
    LET r == exec_restricted(code) IN
    IF r.blocks
    THEN [PyFrame("execute", code) EXCEPT !.pc = "blocked"]
    ELSE IF r.raised # NoExc /\ ~ python_catches(r.raised)
    THEN [PyFrame("execute", code) EXCEPT
             !.pc = "raised", !.exc = r.raised, !.raised = {"exec"}]
    ELSE [PyFrame("execute", code) EXCEPT
             !.pc = "returned", !.result = python_execute(code),
             !.raised = IF r.raises # <<>> THEN {"exec"} ELSE {}]

PyExecute(code) ==
    /\ py.pc \in {"idle", "returned", "raised"} /\ py.started < MaxPyCalls
    /\ py' = PyExecuteFrame(code)
    /\ UNCHANGED <<dockerVars, gen, shown, app>>

\* execute_file lines 96-97: temp_file = None, start_time
PyExecuteFile(code) ==
    /\ py.pc \in {"idle", "returned", "raised"} /\ py.started < MaxPyCalls
    /\ py' = [PyFrame("execute_file", code) EXCEPT !.pc = "create_temp_file"]
    /\ UNCHANGED <<dockerVars, gen, shown, app>>

\* line 101, FileManager.create_temp_file: NamedTemporaryFile(delete=False)
\* creates the file, f.write(code) encodes and writes it, f.name is returned
PyCreateTempFile ==
    /\ py.pc = "create_temp_file"
    /\ LET n == Min({m \in TempNames : ~ py.files[m].exists}) IN
       \/ \* the file cannot be created
          py' = [py EXCEPT !.pc = "finally",
                           !.result = execute_file_failed(ErrNoSpace, 0),
                           !.raised = @ \cup {"create"}]
       \/ \* the file is created, the write raises
          \E msg \in (IF Encodable(py.code) THEN {ErrNoSpace} ELSE {ErrSurrogate}) :
             py' = [py EXCEPT !.pc = "finally", !.created = n,
                              !.files[n] = [exists |-> TRUE, content |-> <<>>],
                              !.result = execute_file_failed(msg, 0),
                              !.raised = @ \cup {"write"}]
       \/ /\ Encodable(py.code)
          /\ py' = [py EXCEPT !.pc = "run", !.created = n, !.temp_file = n,
                              !.files[n] = [exists |-> TRUE, content |-> py.code]]
    /\ UNCHANGED <<dockerVars, gen, shown, app>>

\* lines 104-127: subprocess.run and the result, or TimeoutExpired
PyRunSubprocess ==
    /\ py.pc = "run"
    /\ LET run == subprocess_run(py.files[py.temp_file].content) IN
       \/ /\ ~ run.timeout
          /\ py' = [py EXCEPT !.pc = "finally",
                              !.result = execute_file_result(run, RunTime)]
       \/ /\ run.timeout
          /\ py' = [py EXCEPT !.pc = "finally",
                              !.result = ExecutionResult(FALSE, <<>>, PyTimeoutMsg,
                                                         PyTimeout),
                              !.raised = @ \cup {"timeout"}]
       \/ \* the interpreter cannot be started
          py' = [py EXCEPT !.pc = "finally",
                           !.result = execute_file_failed(ErrPermission, 0),
                           !.raised = @ \cup {"run"}]
    /\ UNCHANGED <<dockerVars, gen, shown, app>>

\* lines 137-140 and FileManager.cleanup_temp_file (os.remove, errors ignored)
PyFinally ==
    /\ py.pc = "finally"
    /\ IF py.temp_file # None
       THEN \/ py' = [py EXCEPT !.pc = "returned", !.files[py.temp_file] = NoFile]
            \/ py' = [py EXCEPT !.pc = "returned",
                                !.raised = @ \cup {"cleanup_temp_file"}]
       ELSE py' = [py EXCEPT !.pc = "returned"]
    /\ UNCHANGED <<dockerVars, gen, shown, app>>

NextPython ==
    \/ \E code \in PySnippets : PyExecute(code)
    \/ \E code \in PySnippets : PyExecuteFile(code)
    \/ PyCreateTempFile
    \/ PyRunSubprocess
    \/ PyFinally

\* a PythonExecutor beside an engine on which nothing is called
InitPython ==
    /\ Init
    /\ client = "None" /\ config = ConfigFull /\ faults = FALSE /\ images = {}

SpecPython == InitPython /\ [][NextPython]_vars

(***************************************************************************)
(* convert_code of the code-generation backends                            *)
(***************************************************************************)
\* The caller is one thread: it makes no other call while it is inside
\* convert_code, nor while a next() of it waits on a streamer that gets no
\* end signal
CallerFree ==
    /\ gen.pc # "calling"
    /\ \A i \in DOMAIN gen.streams : gen.streams[i].pc # "blocked"

\* update_api_key of ClaudeModel and OpenAIModel.  It may be called between
\* requests and also while streamed requests are open: the caller holds the
\* generators convert_code returned and the model object takes further calls.
UpdateApiKey(api_key) ==
    /\ gen.backend \in Hosted
    /\ CallerFree
    /\ gen' = [gen EXCEPT !.model = HostedModel(api_key)]
    /\ UNCHANGED <<dockerVars, py, shown, app>>

\* _generate_streaming is a generator function: calling it runs none of its
\* body, and convert_code returns the generator object as it is
streams_lazily(stream) == stream

\* convert_code up to its return or its remote call: the availability check,
\* the prompt, for QwenModel the chat template and the tokenization (their
\* errors are wrapped by the except clause of line 97), and in streaming mode
\* the return of the generator.  Generators returned earlier stay as they are.
ConvertCode(stream, target, comments) ==
    /\ CallerFree
    /\ gen.started < MaxConversions
    /\ LET req == [gen EXCEPT !.stream = stream, !.target = target,
                              !.comments = comments, !.exc = NoExc, !.text = <<>>,
                              !.remote = 0, !.started = @ + 1,
                              !.available = model_is_available(gen.backend, gen.model)]
       IN IF ~ model_is_available(gen.backend, gen.model)
          THEN gen' = [req EXCEPT !.pc = "raised",
                          !.exc = Exc("Exception", BackendUnavailableMsg(gen.backend))]
          ELSE \/ /\ gen.backend = "qwen"
                  /\ \E msg \in QwenPrepareErrors :
                        gen' = [req EXCEPT !.pc = "raised",
                                  !.exc = Exc("Exception",
                                              CallFailedPrefix(gen.backend) \o msg)]
               \/ gen' = IF streams_lazily(stream)
                         THEN [req EXCEPT !.pc = "generator",
                                          !.streams = Append(@, NoStream)]
                         ELSE [req EXCEPT !.pc = "calling"]
    /\ UNCHANGED <<dockerVars, py, shown, app>>

\* the rest of the try block: the remote call (messages.create,
\* chat.completions.create, model.generate) and its result, or the wrapped
\* error
GenerateComplete ==
    /\ gen.pc = "calling"
    /\ \/ gen' = [gen EXCEPT !.pc = "returned", !.text = Response, !.remote = @ + 1]
       \/ \E msg \in RemoteErrors :
             gen' = [gen EXCEPT !.pc = "raised", !.remote = @ + 1,
                       !.exc = Exc("Exception", CallFailedPrefix(gen.backend) \o msg)]
    /\ UNCHANGED <<dockerVars, py, shown, app>>

\* the caller's next() on generator i: the first one runs the body of
\* _generate_streaming up to its first yield, remote call included; an error
\* raised there or while the response is read, the read that follows the
\* last piece included, reaches the caller as it is; a generation that
\* fails in QwenModel's thread leaves the caller waiting on the streamer.
\* The hosted backends read self.client when the body starts
\* (self.client.messages.stream, self.client.chat): a client set to None
\* since convert_code returned raises AttributeError there, before any
\* remote call; once the stream is open it goes on with the client it was
\* opened with.
StreamNext(i) ==
    /\ CallerFree
    /\ i \in DOMAIN gen.streams
    /\ gen.streams[i].pc = "open"
    /\ LET g == gen.streams[i]
           no_client == g.text = <<>> /\ gen.backend \in Hosted
                                     /\ gen.model.client = "None"
       IN
       \/ /\ no_client
          /\ gen' = [gen EXCEPT !.streams[i] =
                       [g EXCEPT !.pc = "raised",
                                 !.exc = Exc("AttributeError",
                                             ErrNoClientAttribute(gen.backend))]]
       \/ /\ ~ no_client /\ Len(g.text) < Len(Response)
          /\ gen' = [gen EXCEPT !.streams[i] =
                       [g EXCEPT !.text = SubSeq(Response, 1, Len(@) + 1),
                                 !.remote = 1]]
       \/ /\ g.text = Response
          /\ gen' = [gen EXCEPT !.streams[i].pc = "exhausted"]
       \/ /\ ~ no_client
          /\ \E msg \in RemoteErrors :
                gen' = [gen EXCEPT !.streams[i] =
                          [g EXCEPT !.pc = "raised", !.remote = 1,
                                    !.exc = Exc("APIError", msg)]]
       \/ /\ gen.backend = "qwen"
          /\ gen' = [gen EXCEPT !.streams[i] =
                       [g EXCEPT !.pc = "blocked", !.remote = 1]]
    /\ UNCHANGED <<dockerVars, py, shown, app>>

NextModels ==
    \/ \E api_key \in {"", "k1"} : UpdateApiKey(api_key)
    \/ \E stream \in BOOLEAN, target \in {"C++", "Java"}, comments \in BOOLEAN :
          ConvertCode(stream, target, comments)
    \/ GenerateComplete
    \/ \E i \in 1..MaxConversions : StreamNext(i)

\* any backend as constructed: a hosted one with or without a key, the
\* local one loaded or not, with or without CUDA
InitModels ==
    /\ client = "None" /\ config = ConfigFull
    /\ engine = Constructed(FileOf(ConfigFull))
    /\ faults = FALSE /\ images = {}
    /\ fs = [d \in Dirs |-> NoDir]
    /\ containers = {} /\ nextCid = 1 /\ started = 0
    /\ calls = [c \in Calls |-> InitCall]
    /\ py = PyInit /\ shown = NotShown /\ app = AppInit
    /\ gen \in {GenOf(b, HostedModel(k)) : b \in Hosted, k \in {"None", "k1"}}
              \cup {GenOf("qwen", LocalModel(l, g)) : l \in BOOLEAN, g \in BOOLEAN}

SpecModels == InitModels /\ [][NextModels]_vars

(***************************************************************************)
(* ExecutionResult.format_result on any result                             *)
(***************************************************************************)
FormatResult ==
    /\ shown.pc = "idle"
    /\ shown' = [shown EXCEPT !.pc = "formatted", !.text = format_result(shown.result)]
    /\ UNCHANGED <<dockerVars, py, gen, app>>

NextFormat == FormatResult

\* an ExecutionResult with any flag, output and error
InitFormat ==
    /\ client = "None" /\ config = ConfigFull
    /\ engine = Constructed(FileOf(ConfigFull))
    /\ faults = FALSE /\ images = {}
    /\ fs = [d \in Dirs |-> NoDir]
    /\ containers = {} /\ nextCid = 1 /\ started = 0
    /\ calls = [c \in Calls |-> InitCall]
    /\ py = PyInit /\ gen = GenInit
    /\ shown \in {[NotShown EXCEPT !.result = r] : r \in FormatInputs}
    /\ app = AppInit

SpecFormat == InitFormat /\ [][NextFormat]_vars

(***************************************************************************)
(* CodeConverterApp: the execution handlers                                *)
(***************************************************************************)
\* CodeValidator.validate_python_code: empty code and code ast.parse rejects
\* (the token "(" stands for a parenthesis that is never closed).  ast.parse
\* encodes the text before it parses it: text UTF-8 cannot encode raises
\* UnicodeEncodeError, which `except Exception` turns into an invalid verdict.
validate_python_code(code) ==
    IF code = <<>>
    THEN [valid |-> FALSE, msg |-> <<"Code", "is", "empty">>]
    ELSE IF ~ Encodable(code)
    THEN [valid |-> FALSE, msg |-> <<"Validation", "error:">> \o ErrSurrogate]
    ELSE IF Contains(code, <<"(">>)
    THEN [valid |-> FALSE, msg |-> <<"Syntax", "error", "in", "code:">>]
    ELSE [valid |-> TRUE, msg |-> <<>>]

\* the Python code the interface hands to execute_python_code
PythonInputs == PySnippets \cup {<<>>, <<"print_a", "(">>}

\* the answer of validate_language_support, or what it raises
validate_language_support(cfg, language) ==
    LET r == get_language_config(cfg, language) IN
    IF r.raises = NoExc THEN [raises |-> NoExc, value |-> TRUE]
    ELSE IF IsValueError(r.raises) THEN [raises |-> NoExc, value |-> FALSE]
    ELSE [raises |-> r.raises, value |-> FALSE]

HandlerIdle == app.handler.pc \in {"idle", "returned", "raised"}

\* execute_python_code (lines 119-135): the checks, PythonExecutor.execute and
\* the formatting of its result
AppExecutePythonCode(code) ==
    /\ HandlerIdle
    /\ py.pc \in {"idle", "returned", "raised"} /\ py.started < MaxPyCalls
    /\ LET h == [NoHandler EXCEPT !.op = "execute_python_code", !.code = code]
           v == validate_python_code(code)
           frame == PyExecuteFrame(code)
       IN IF code = <<>>
          THEN /\ app' = [app EXCEPT !.handler =
                     [h EXCEPT !.pc = "returned",
                               !.text = <<"**Error:**", "Please", "provide", "Python", "code">>]]
               /\ UNCHANGED py
          ELSE IF ~ v.valid
          THEN /\ app' = [app EXCEPT !.handler =
                     [h EXCEPT !.pc = "returned",
                               !.text = <<"**Invalid", "Python", "Code:**">> \o v.msg]]
               /\ UNCHANGED py
          ELSE /\ py' = frame
               /\ app' = [app EXCEPT !.handler =
                     CASE frame.pc = "blocked" -> [h EXCEPT !.pc = "blocked"]
                       [] frame.pc = "raised" ->
                            [h EXCEPT !.pc = "raised", !.exc = frame.exc]
                       [] OTHER ->
                            [h EXCEPT !.pc = "returned", !.given = TRUE,
                                      !.result = frame.result,
                                      !.text = handler_return(frame.result)]]
    /\ UNCHANGED <<dockerVars, gen, shown>>

\* execute_converted_code lines 137-152: the checks that precede execute
AppExecuteConvertedCode(output, language) ==
    /\ HandlerIdle
    /\ calls[1].pc \in {"idle", "returned", "raised"} /\ started < MaxCalls
    /\ LET h == [NoHandler EXCEPT !.op = "execute_converted_code",
                                  !.code = clean_code_output(output),
                                  !.language = language, !.seen = started]
           v == validate_language_support(config, language)
       IN app' = [app EXCEPT !.handler =
             IF output = <<>>
             THEN [h EXCEPT !.pc = "returned", !.text = ErrEmptyInput]
             ELSE IF ~ is_available(client)
             THEN [h EXCEPT !.pc = "returned", !.text = ErrDockerMissing]
             ELSE IF v.raises # NoExc
             THEN [h EXCEPT !.pc = "returned",
                            !.text = <<"Execution", "Failed:">> \o v.raises.msg]
             ELSE IF ~ v.value
             THEN [h EXCEPT !.pc = "returned",
                            !.text = ErrNotSupported(language,
                                                     get_supported_languages(config))]
             ELSE [h EXCEPT !.pc = "calling"]]
    /\ UNCHANGED <<dockerVars, py, gen, shown>>

\* line 155: self.docker_executor.execute(code, target_language) is entered
AppCallExecute ==
    /\ app.handler.pc = "calling" /\ started = app.handler.seen
    /\ Execute(1, app.handler.code, app.handler.language)

\* lines 155-159: execute has returned; return result.format_results()
AppReturn ==
    /\ app.handler.pc = "calling" /\ started > app.handler.seen
    /\ calls[1].pc \in {"returned", "raised"}
    /\ app' = [app EXCEPT !.handler =
          IF calls[1].pc = "returned"
          THEN [@ EXCEPT !.pc = "returned", !.given = TRUE,
                         !.result = calls[1].result,
                         !.text = handler_return(calls[1].result)]
          ELSE [@ EXCEPT !.pc = "returned",
                         !.text = <<"Execution", "Failed:">> \o calls[1].exc.msg]]
    /\ UNCHANGED <<dockerVars, py, gen, shown>>

NextApp ==
    \/ \E code \in PythonInputs : AppExecutePythonCode(code)
    \/ \E output \in ConvertedOutputs, language \in {"C++", "Java", "ruby"} :
          AppExecuteConvertedCode(output, language)
    \/ AppCallExecute
    \/ AppReturn
    \/ Step

\* the application beside its engine; runtime and file-system calls succeed
InitApp == Init /\ faults = FALSE

SpecApp == InitApp /\ [][NextApp]_vars

(***************************************************************************)
(* CodeConverterApp.convert_code: concurrent requests on one hosted model  *)
(***************************************************************************)
Req(r) == app.requests[r]
SetReq(r, frame, model) ==
    app' = [app EXCEPT !.requests[r] = frame, !.model = model]

\* convert_code lines 90-93 and update_api_key lines 59/63 of the
\* application:  self.current_<backend>_key = api_key
ReqSetCurrentKey(r) ==
    /\ Req(r).pc = "idle"
    /\ app' = [app EXCEPT !.requests[r].pc = "update_key",
                          !.current_key = KeyOf(r)]
    /\ UNCHANGED <<dockerVars, py, gen, shown>>

\* lines 60/64 call the model's update_api_key; its first statement:
\* self.api_key = api_key
ReqUpdateKey(r) ==
    /\ Req(r).pc = "update_key"
    /\ SetReq(r, [Req(r) EXCEPT !.pc = "update_client"],
                 [app.model EXCEPT !.api_key = KeyOf(r)])
    /\ UNCHANGED <<dockerVars, py, gen, shown>>

\* the second statement:  self.client = Anthropic(api_key=api_key)
ReqUpdateClient(r) ==
    /\ Req(r).pc = "update_client"
    /\ SetReq(r, [Req(r) EXCEPT !.pc = "check"],
                 [app.model EXCEPT !.client = HostedModel(KeyOf(r)).client])
    /\ UNCHANGED <<dockerVars, py, gen, shown>>

\* lines 96-107: the model is looked up and asked whether it is available
ReqCheckAvailable(r) ==
    /\ Req(r).pc = "check"
    /\ IF model_is_available(app.backend, app.model)
       THEN SetReq(r, [Req(r) EXCEPT !.pc = "convert"], app.model)
       ELSE SetReq(r, [Req(r) EXCEPT !.pc = "returned",
                          !.text = <<"**Error:**">> \o SubSeq(
                                       BackendUnavailableMsg(app.backend), 1, 5)],
                   app.model)
    /\ UNCHANGED <<dockerVars, py, gen, shown>>

\* line 111, model.convert_code: its own is_available() check and the prompt
ReqConvert(r) ==
    /\ Req(r).pc = "convert"
    /\ IF model_is_available(app.backend, app.model)
       THEN SetReq(r, [Req(r) EXCEPT !.pc = "send"], app.model)
       ELSE SetReq(r, [Req(r) EXCEPT !.pc = "returned",
                          !.text = <<"**Conversion", "Failed:**">>
                                      \o BackendUnavailableMsg(app.backend)],
                   app.model)
    /\ UNCHANGED <<dockerVars, py, gen, shown>>

\* _generate_complete: self.client is read and the remote call is sent
\* through it; the thread then waits for the service inside create()
ReqSend(r) ==
    /\ Req(r).pc = "send"
    /\ SetReq(r, [Req(r) EXCEPT !.pc = "waiting", !.used = app.model.client],
                 app.model)
    /\ UNCHANGED <<dockerVars, py, gen, shown>>

\* the wait inside create() ends.  The answer arrives: _generate_complete
\* and convert_code return (line 113); or the remote call raises: the model's
\* convert_code wraps the error (lines 28-29 of the model) and the
\* application's except clause returns it as text (lines 115-117)
ReqReceive(r) ==
    /\ Req(r).pc = "waiting"
    /\ \/ SetReq(r, [Req(r) EXCEPT !.pc = "returned",
                          !.text = <<"**Conversion", "Successful**">> \o Response],
                 app.model)
       \/ \E msg \in RemoteErrors :
             SetReq(r, [Req(r) EXCEPT !.pc = "returned",
                          !.text = <<"**Conversion", "Failed:**">>
                                      \o CallFailedPrefix(app.backend) \o msg],
                    app.model)
    /\ UNCHANGED <<dockerVars, py, gen, shown>>

NextRequests ==
    \E r \in Requests :
        \/ ReqSetCurrentKey(r)
        \/ ReqUpdateKey(r)
        \/ ReqUpdateClient(r)
        \/ ReqCheckAvailable(r)
        \/ ReqConvert(r)
        \/ ReqSend(r)
        \/ ReqReceive(r)

\* the application with either hosted model selected, with or without a key
\* from an earlier request
InitRequests ==
    /\ client = "None" /\ config = ConfigFull
    /\ engine = Constructed(FileOf(ConfigFull))
    /\ faults = FALSE /\ images = {}
    /\ fs = [d \in Dirs |-> NoDir]
    /\ containers = {} /\ nextCid = 1 /\ started = 0
    /\ calls = [c \in Calls |-> InitCall]
    /\ py = PyInit /\ gen = GenInit /\ shown = NotShown
    /\ app \in {[AppOf(b) EXCEPT !.model = HostedModel(k), !.current_key = k] :
                   b \in Hosted, k \in {"None", "k0"}}

SpecRequests == InitRequests /\ [][NextRequests]_vars

\* concurrent callers on one engine; runtime and file-system calls succeed
InitReliable == Init /\ faults = FALSE

SpecConcurrent == InitReliable /\ [][NextConcurrent]_vars

TypeOK ==
    /\ client \in {"None", "client"}
    /\ started \in Nat
    /\ nextCid \in 1..(started + 1)
    /\ \A c \in Calls : calls[c].temp_dir \in {None} \cup Dirs

(***************************************************************************)
(* Properties                                                              *)
(***************************************************************************)
Returned(c) == calls[c].pc = "returned"
Done(c) == calls[c].pc \in {"returned", "raised"}
InFlight(c) == calls[c].pc \notin {"idle", "returned", "raised"}
Count(seq, ev) == Cardinality({i \in DOMAIN seq : seq[i] = ev})
Ran(c, ev) == \E i \in DOMAIN calls[c].trace : calls[c].trace[i] = ev

\* the calls made to the isolation runtime
RuntimeOps == {"images.get", "images.pull", "containers.run", "wait", "logs",
               "logs_retry", "remove"}
\* the steps of execute that precede cleanup
PrimarySteps == {"get_language_config", "create_strategy", "create_temp_directory",
                 "prepare_code", "get_execution_command", "images.get", "images.pull",
                 "create_container", "containers.run", "wait", "logs"}

\* C1 as stated: once execute has returned, the workspace directory the call
\* created no longer exists, whatever the outcome of its steps.
C1_WorkspaceGoneAfterReturn ==
    \A c \in Calls :
        Done(c) /\ calls[c].temp_dir # None => ~ fs[calls[c].temp_dir].exists

\* C1 amended: on every outcome execute attempts the removal of the workspace
\* it created before it returns, and the directory no longer exists once
\* execute has returned unless that removal itself raised (which is swallowed).
C1_WorkspaceRemovedUnlessRemovalFails ==
    \A c \in Calls :
        Done(c) /\ calls[c].temp_dir # None =>
            /\ Ran(c, "cleanup_temp_directory")
            /\ "cleanup_temp_directory" \notin calls[c].raised =>
                   ~ fs[calls[c].temp_dir].exists

\* a call returned after a failed step, and its workspace is gone
C1_Witness ==
    \E c \in Calls :
        /\ Returned(c) /\ calls[c].temp_dir # None
        /\ "wait" \in calls[c].raised
        /\ "cleanup_temp_directory" \notin calls[c].raised
        /\ ~ fs[calls[c].temp_dir].exists

\* C2: after execute returns, on any path, no container created by the call
\* still exists in the isolation runtime.
C2_NoContainerLeftAfterReturn ==
    \A c \in Calls :
        Done(c) /\ calls[c].made # None => ~ ContainerExists(calls[c].made)

\* C3 as stated: every error raised by a step of execute, cleanup included,
\* ends in a returned result with success = false; nothing propagates.
C3_EveryErrorYieldsFailure ==
    \A c \in Calls :
        Done(c) /\ calls[c].raised # {} =>
            Returned(c) /\ ~ calls[c].result.success

\* C3 amended: no exception propagates out of execute, and every error raised
\* by a step that precedes cleanup ends in a returned result with
\* success = false; an error raised by a cleanup step is swallowed and
\* leaves the result as it was.
C3_NoErrorEscapes ==
    \A c \in Calls :
        Done(c) =>
            /\ Returned(c)
            /\ calls[c].raised \cap PrimarySteps # {} => ~ calls[c].result.success

\* a call whose container creation raised has returned a failure
C3_Witness ==
    \E c \in Calls :
        /\ Returned(c)
        /\ "containers.run" \in calls[c].raised
        /\ ~ calls[c].result.success

\* C4: an engine constructed while the runtime was unreachable stays
\* unavailable, and each of its execute calls returns the fixed unavailability
\* result at once: no language resolved, no workspace, no runtime call.
C4_UnavailableFailsFast ==
    [][client = "None" =>
         /\ client' = "None"
         /\ fs' = fs /\ containers' = containers /\ images' = images
         /\ \A c \in Calls :
               calls'[c].pc # "idle" =>
                  /\ calls'[c].pc = "returned"
                  /\ calls'[c].result = [success |-> FALSE, output |-> <<>>,
                                         error |-> UnavailableMsg,
                                         execution_time |-> 0]
                  /\ calls'[c].trace = <<"is_available">>
                  /\ calls'[c].temp_dir = None
                  /\ calls'[c].made = None]_vars

\* a call on an unavailable engine has returned
C4_Witness ==
    /\ client = "None"
    /\ started >= 1
    /\ \E c \in Calls : Returned(c) /\ calls[c].result.error = UnavailableMsg

\* is the language missing from the configuration or from the registry
Unsupported(language) ==
    \/ LowerWord(language) \notin DOMAIN config.languages
    \/ LowerWord(language) \notin Strategies

\* C5: for an unsupported language execute returns success = false and makes
\* no call to the isolation runtime.
C5_UnsupportedNeverContactsRuntime ==
    \A c \in Calls :
        calls[c].pc # "idle" /\ Unsupported(calls[c].language) =>
            /\ \A op \in RuntimeOps : ~ Ran(c, op)
            /\ calls[c].made = None
            /\ Done(c) => Returned(c) /\ ~ calls[c].result.success

\* a call for a language that is configured but has no strategy has returned
C5_Witness ==
    \E c \in Calls :
        /\ Returned(c) /\ client # "None"
        /\ LowerWord(calls[c].language) \in DOMAIN config.languages
        /\ LowerWord(calls[c].language) \notin Strategies

\* has container.wait returned normally in call c, and _wait_for_container
\* built its result
WaitReturned(c) ==
    /\ calls[c].pc \in {"cleanup_container", "finally", "returned"}
    /\ Ran(c, "wait") /\ "wait" \notin calls[c].raised

\* the result the exit code alone determines
ByExitCode(c) ==
    LET r == calls[c].result
        ct == ContainerOf(calls[c].container)
    IN /\ calls[c].exit_code = 0 =>
            r.success /\ r.output = calls[c].logs /\ r.error = <<>>
       /\ calls[c].exit_code # 0 =>
            ~ r.success /\ r.error = calls[c].logs /\ r.output = <<>>
       /\ calls[c].pc = "cleanup_container" =>
            /\ calls[c].exit_code = StatusCode(ct)
            /\ calls[c].logs = ContainerLogs(ct)

\* C6 as stated: whenever wait returns normally, the exit code alone
\* determines the result.
C6_ExitCodeAloneDecides ==
    \A c \in Calls : WaitReturned(c) => ByExitCode(c)

\* C6 amended: whenever wait returns normally and the log retrieval after it
\* succeeds, the exit code alone determines the result (0: success, logs as
\* output, empty error; otherwise failure, logs as error, empty output);
\* when that log retrieval raises the result is a failure.
C6_ExitCodeDecidesWhenLogsRead ==
    \A c \in Calls :
        WaitReturned(c) =>
            IF "logs" \in calls[c].raised
            THEN ~ calls[c].result.success
            ELSE ByExitCode(c)

\* wait returned a non-zero exit code, the logs were read, execute returned
C6_Witness ==
    \E c \in Calls :
        /\ Returned(c) /\ WaitReturned(c)
        /\ "logs" \notin calls[c].raised
        /\ calls[c].exit_code # 0 /\ calls[c].logs # <<>>

\* C7: when wait raises or times out, the engine reads the logs once more,
\* best effort, and returns success = false with a message that embeds the
\* wait error text and whatever logs were recovered.
C7_WaitErrorEmbedsLogs ==
    \A c \in Calls :
        /\ calls[c].pc \in {"cleanup_container", "finally", "returned"}
        /\ "wait" \in calls[c].raised
        => /\ ~ calls[c].result.success
           /\ calls[c].result.output = <<>>
           /\ calls[c].result.error =
                 <<"Container", "execution", "error:">> \o calls[c].wait_exc.msg
                    \o <<"Logs:">> \o calls[c].logs
           /\ Count(calls[c].trace, "logs_retry") = 1
           /\ ~ Ran(c, "logs")
           /\ "logs_retry" \in calls[c].raised => calls[c].logs = <<>>
           /\ calls[c].pc = "cleanup_container"
                 /\ "logs_retry" \notin calls[c].raised =>
                 calls[c].logs = ContainerLogs(ContainerOf(calls[c].container))

\* wait raised, logs were recovered, execute returned
C7_Witness ==
    \E c \in Calls :
        /\ Returned(c) /\ "wait" \in calls[c].raised
        /\ calls[c].logs # <<>>

\* C8: a container still running at the end of the configured timeout makes
\* execute return success = false with the timeout diagnostic of the error
\* classification.
C8_TimeoutIsClassified ==
    \A c \in Calls :
        /\ Returned(c)
        /\ "wait" \in calls[c].raised
        /\ calls[c].wait_exc.msg = ErrReadTimeout
        => /\ ~ calls[c].result.success
           /\ calls[c].result.error = TimeoutDiagnostic

\* the result a call's own program determines when nothing else fails
OwnResult(c, r) ==
    LET own == SelectSeq(calls[c].code, IsPrint) IN
    IF Contains(calls[c].code, <<"loop">>)
    THEN /\ ~ r.success /\ r.output = <<>>
         /\ r.error = <<"Container", "execution", "error:">> \o ErrReadTimeout
                         \o <<"Logs:">> \o own
    ELSE IF Contains(calls[c].code, <<"exit1">>)
    THEN ~ r.success /\ r.output = <<>> /\ r.error = own
    ELSE r.success /\ r.output = own /\ r.error = <<>>

\* C9: concurrent execute calls have distinct workspaces and containers, each
\* container mounts its own call's workspace only, and each result carries
\* the logs of its own container only.
C9_ConcurrentCallsIsolated ==
    /\ \A c, d \in Calls :
          c # d /\ InFlight(c) /\ InFlight(d) =>
             /\ calls[c].temp_dir # None => calls[c].temp_dir # calls[d].temp_dir
             /\ calls[c].container # None => calls[c].container # calls[d].container
    /\ \A c \in Calls :
          calls[c].made # None /\ ContainerExists(calls[c].made) =>
             /\ ContainerOf(calls[c].made).mount = calls[c].temp_dir
             /\ ContainerOf(calls[c].made).files = fs[calls[c].temp_dir].files
             /\ Program(ContainerOf(calls[c].made)) = calls[c].code
    /\ \A c \in Calls :
          Returned(c) /\ calls[c].container # None => OwnResult(c, calls[c].result)

\* two calls wait for their containers at the same time
C9_Witness ==
    \E c, d \in Calls :
        /\ c # d /\ At(c, "wait") /\ At(d, "wait")
        /\ calls[c].code # calls[d].code

\* the place of a step in the order of execute; 0 for what is not a step of it
StepRank(ev) ==
    CASE ev = "is_available" -> 1
      [] ev = "get_language_config" -> 2
      [] ev = "create_strategy" -> 3
      [] ev = "create_temp_directory" -> 4
      [] ev = "prepare_code" -> 5
      [] ev = "get_execution_command" -> 6
      [] ev = "images.get" -> 7
      [] ev = "containers.run" -> 8
      [] ev = "wait" -> 9
      [] ev = "cleanup_temp_directory" -> 10
      [] OTHER -> 0

InOrder(trace) ==
    \A i, j \in DOMAIN trace :
        i < j /\ StepRank(trace[i]) # 0 /\ StepRank(trace[j]) # 0 =>
            StepRank(trace[i]) < StepRank(trace[j])

\* C10 as stated: the steps run in the fixed order and the workspace cleanup
\* runs exactly once per call, whichever earlier step failed.
C10_OrderedCleanupOncePerCall ==
    \A c \in Calls :
        /\ InOrder(calls[c].trace)
        /\ Done(c) => Count(calls[c].trace, "cleanup_temp_directory") = 1

\* C10 amended: the steps run in the fixed order, and the workspace cleanup
\* runs exactly once in a call that created a workspace, whichever later step
\* failed, and not at all in a call that ended before a workspace existed.
C10_OrderedCleanupOncePerWorkspace ==
    \A c \in Calls :
        /\ InOrder(calls[c].trace)
        /\ Count(calls[c].trace, "cleanup_temp_directory") <= 1
        /\ Done(c) =>
             Count(calls[c].trace, "cleanup_temp_directory")
                = IF calls[c].temp_dir # None THEN 1 ELSE 0

\* a call ran every step through wait and cleaned its workspace up once
C10_Witness ==
    \E c \in Calls :
        /\ Returned(c) /\ Ran(c, "wait")
        /\ Count(calls[c].trace, "cleanup_temp_directory") = 1

\* the source holds no  class <name>  declaration
NoClassDeclaration(code) ==
    \A i \in 1..(Len(code) - 1) : ~ (code[i] = "class" /\ IsWord(code[i + 1]))

\* a Java call whose source declares no class has reached prepare
JavaWithoutClass(c) ==
    /\ calls[c].strategy = "java"
    /\ NoClassDeclaration(calls[c].code)
    /\ Ran(c, "prepare_code")

\* prepare failed with the preparation error before anything was written and
\* before any image lookup or container creation
PrepareFailedEarly(c) ==
    /\ "prepare_code" \in calls[c].raised
    /\ fs[calls[c].temp_dir].files = <<>>
    /\ \A op \in RuntimeOps : ~ Ran(c, op)
    /\ calls[c].made = None /\ calls[c].container = None
    /\ calls[c].pc = "except" =>
          calls[c].exc = [type |-> "ValueError", msg |-> NoClassNameMsg]

\* C12 as stated: for a Java source in which no class declaration can be
\* found, prepare fails before any file is written and before any image
\* lookup or container creation; execute returns success = false and the
\* workspace is removed.
C12_NoClassFailsAndWorkspaceRemoved ==
    \A c \in Calls :
        JavaWithoutClass(c) =>
            /\ PrepareFailedEarly(c)
            /\ Done(c) =>
                  /\ Returned(c) /\ ~ calls[c].result.success
                  /\ ~ fs[calls[c].temp_dir].exists

\* C12 amended: for a Java source in which no class declaration can be found,
\* prepare fails before any file is written and before any image lookup or
\* container creation; execute returns success = false with the preparation
\* error as its error text, and the removal of the workspace is attempted: the
\* workspace is gone unless that removal itself raised.
C12_NoClassFailsBeforeAnyWrite ==
    \A c \in Calls :
        JavaWithoutClass(c) =>
            /\ PrepareFailedEarly(c)
            /\ Done(c) =>
                  /\ Returned(c) /\ ~ calls[c].result.success
                  /\ calls[c].result.error = NoClassNameMsg
                  /\ calls[c].result.output = <<>>
                  /\ Ran(c, "cleanup_temp_directory")
                  /\ "cleanup_temp_directory" \notin calls[c].raised =>
                        ~ fs[calls[c].temp_dir].exists

\* a Java call on a source that has the word class but no class name failed
\* in prepare and returned with its workspace removed
C12_Witness ==
    \E c \in Calls :
        /\ Returned(c) /\ JavaWithoutClass(c)
        /\ Contains(calls[c].code, <<"class">>)
        /\ calls[c].temp_dir # None /\ ~ fs[calls[c].temp_dir].exists

\* execute rejected the language of call c as unknown or unsupported
RejectedAsUnsupported(c) ==
    calls[c].raised \cap {"get_language_config", "create_strategy"} # {}

\* C13: whenever execute rejects a language identifier as unsupported, because
\* it is missing from the configuration or from the strategy registry, the
\* returned success = false result's error text carries the list of supported
\* languages.
C13_RejectionCarriesSupportedList ==
    \A c \in Calls :
        Returned(c) /\ RejectedAsUnsupported(c) =>
            /\ ~ calls[c].result.success
            /\ Contains(calls[c].result.error,
                        <<"Supported:">> \o get_supported_languages(config))

\* the keys a language's entry needs for its strategy to prepare and run code
HasRequiredKeys(lang, entry) ==
    /\ "image" \in DOMAIN entry
    /\ lang \in {"c++", "java"} =>
          {"compile_command", "run_command"} \subseteq DOMAIN entry

\* the configuration file exists, parses, and has both sections and, for
\* every language, the keys its strategy requires
WellFormed(file) ==
    /\ file.kind = "document"
    /\ {"docker", "languages"} \subseteq DOMAIN file.doc
    /\ \A lang \in DOMAIN file.doc.languages :
          HasRequiredKeys(lang, file.doc.languages[lang])

\* no query and no execute call fails on a configuration key that is missing
NoDeferredConfigFailure ==
    /\ engine.answer.raises.type # "KeyError"
    /\ \A c \in Calls : calls[c].exc.type # "KeyError"

\* C14: a missing or malformed configuration (file absent, invalid JSON, a
\* document lacking the docker or languages section or a language's required
\* keys) makes the construction of the engine fail with a configuration
\* error; it never fails for the first time inside a later execute,
\* validate_language_support or get_supported_languages call.
C14_MalformedConfigFailsConstruction ==
    /\ engine.pc # "new" /\ ~ WellFormed(engine.file) =>
          engine.pc = "failed" /\ engine.error # NoExc
    /\ NoDeferredConfigFailure

\* the image was absent and pulling it failed in call c
PullFailed(c) == "images.pull" \in calls[c].raised

\* C15 as stated: when the image is absent locally and the pull fails, execute
\* returns a success = false result (no exception escapes), no container is
\* created, and the workspace created for the call is removed.
C15_PullFailureFailsAndWorkspaceRemoved ==
    \A c \in Calls :
        PullFailed(c) =>
            /\ calls[c].made = None /\ ~ Ran(c, "containers.run")
            /\ Done(c) =>
                  /\ Returned(c) /\ ~ calls[c].result.success
                  /\ ~ fs[calls[c].temp_dir].exists

\* C15 amended: when the image is absent locally and the pull fails, execute
\* returns a success = false result (no exception escapes), no container is
\* created, and the removal of the workspace created for the call is
\* attempted: the workspace is gone unless that removal itself raised.
C15_PullFailureFailsWithoutContainer ==
    \A c \in Calls :
        PullFailed(c) =>
            /\ calls[c].made = None /\ ~ Ran(c, "containers.run")
            /\ calls[c].temp_dir # None
            /\ Done(c) =>
                  /\ Returned(c) /\ ~ calls[c].result.success
                  /\ calls[c].result.output = <<>>
                  /\ calls[c].result.error # <<>>
                  /\ Ran(c, "cleanup_temp_directory")
                  /\ "cleanup_temp_directory" \notin calls[c].raised =>
                        ~ fs[calls[c].temp_dir].exists

\* a call whose image pull failed has returned, its workspace removed
C15_Witness ==
    \E c \in Calls :
        /\ Returned(c) /\ PullFailed(c)
        /\ Ran(c, "images.get") /\ "images.get" \notin calls[c].raised
        /\ ~ fs[calls[c].temp_dir].exists

\* the cleanup steps of execute
CleanupSteps == {"remove", "cleanup_temp_directory"}

\* C16: a failure of a cleanup step (container force-removal, workspace
\* deletion) is swallowed: the cleanup steps leave the result determined by
\* the primary outcome as it is, whether they raise or not, and raise nothing.
C16_CleanupFailureSwallowed ==
    [][\A c \in Calls :
          calls[c].pc \in {"cleanup_container", "finally"} =>
             /\ calls'[c].result = calls[c].result
             /\ calls'[c].exc = calls[c].exc
             /\ calls[c].exc = NoExc => calls'[c].pc # "raised"
             /\ calls'[c].pc \in {"cleanup_container", "finally", "returned", "raised"}]_vars

\* both cleanup steps failed in a call that returned a successful result
C16_Witness ==
    \E c \in Calls :
        /\ Returned(c) /\ CleanupSteps \subseteq calls[c].raised
        /\ calls[c].result.success /\ calls[c].result.output # <<>>

\* C20: every engine-level exception raised inside execute, by a step of its
\* own or while it waits for the container, surfaces as the message of the
\* first matching classification rule (No such container, timeout,
\* permission denied, no space left, otherwise Execution failed: <message>).
C20_EveryEngineErrorClassified ==
    [][\A c \in Calls :
          /\ calls[c].pc = "except" /\ ~ IsValueError(calls[c].exc) =>
                calls'[c].result.error =
                   handle_execution_error(calls[c].exc, 0).error
          /\ calls[c].pc = "wait_except" =>
                calls'[c].result.error =
                   handle_execution_error(calls[c].wait_exc, 0).error]_vars

\* C11: every ExecutionResult an executor operation returns
\* (DockerExecutor.execute, PythonExecutor.execute, PythonExecutor.execute_file)
\* satisfies: success = true implies that error is the empty string.
C11_SuccessImpliesEmptyError ==
    /\ py.pc = "returned" => (py.result.success => py.result.error = <<>>)
    /\ \A c \in Calls :
          Returned(c) => (calls[c].result.success => calls[c].result.error = <<>>)

\* C19: execute_file removes the temporary source file it created on every
\* outcome (exit 0, non-zero exit, timeout, any exception, a failure while
\* the file is being written included), and a subprocess that exceeds the
\* 30-second limit yields success = false with the timeout message.
C19_TempFileAlwaysRemoved ==
    py.pc = "returned" /\ py.mode = "execute_file" =>
        /\ py.created # None => ~ py.files[py.created].exists
        /\ "timeout" \in py.raised =>
              /\ ~ py.result.success
              /\ py.result.error = PyTimeoutMsg

\* C17: the text format_result returns for a success result contains the
\* output verbatim, and for a failure result contains the error verbatim,
\* whatever the output and the error are.
C17_FormatKeepsBodyVerbatim ==
    shown.pc = "formatted" =>
        /\ shown.result.success => Contains(shown.text, shown.result.output)
        /\ ~ shown.result.success => Contains(shown.text, shown.result.error)

\* a failure result whose error is as long as a text gets, and made of words
\* the formatter writes itself, has been formatted
C17_Witness ==
    /\ shown.pc = "formatted" /\ ~ shown.result.success
    /\ Len(shown.result.error) >= 2
    /\ shown.result.error[1] = "**Error:**"
    /\ shown.result.output # <<>>

\* does the text start with the prefix
StartsWith(t, prefix) ==
    Len(t) >= Len(prefix) /\ SubSeq(t, 1, Len(prefix)) = prefix

\* C18: for every backend and both modes, a failure of convert_code reaches
\* the caller as one of two conditions: backend unavailable, raised when
\* is_available() is false and before any remote call, or backend call
\* failed, which wraps any error of the remote call, errors raised while a
\* streamed response is consumed included.
C18_FailureIsUnavailableOrCallFailed ==
    /\ gen.pc = "raised" =>
          \/ /\ gen.exc = Exc("Exception", BackendUnavailableMsg(gen.backend))
             /\ ~ gen.available
             /\ gen.remote = 0
          \/ /\ gen.exc.type = "Exception"
             /\ StartsWith(gen.exc.msg, CallFailedPrefix(gen.backend))
             /\ gen.available
    /\ \A i \in DOMAIN gen.streams :
          /\ gen.streams[i].pc # "blocked"
          /\ gen.streams[i].pc = "raised" =>
                /\ gen.streams[i].exc.type = "Exception"
                /\ StartsWith(gen.streams[i].exc.msg, CallFailedPrefix(gen.backend))

\* C21: one execute call creates at most one workspace, prepares the code at
\* most once, creates at most one container and waits on it at most once,
\* whether the run succeeds, fails or times out: the core never retries.
C21_NoRetryWithinOneCall ==
    \A c \in Calls :
        /\ Count(calls[c].trace, "create_temp_directory") <= 1
        /\ Count(calls[c].trace, "prepare_code") <= 1
        /\ Count(calls[c].trace, "containers.run") <= 1
        /\ Count(calls[c].trace, "wait") <= 1

\* a call whose wait timed out has returned a failure, having created one
\* workspace and one container and waited once
C21_Witness ==
    \E c \in Calls :
        /\ Returned(c) /\ ~ calls[c].result.success
        /\ "wait" \in calls[c].raised
        /\ calls[c].wait_exc.msg = ErrReadTimeout
        /\ Count(calls[c].trace, "create_temp_directory") = 1
        /\ Count(calls[c].trace, "containers.run") = 1
        /\ Count(calls[c].trace, "wait") = 1

\* C22: every execute call eventually returns a result; the wait on the
\* container is limited by the language's timeout, so a container that never
\* exits does not keep the call from returning.
C22_EveryCallReturns ==
    \A c \in Calls : InFlight(c) ~> Returned(c)

\* a call on a program that never ends, in a language whose entry leaves the
\* timeout to its default, has returned after the default 30 seconds
C22_Witness ==
    \E c \in Calls :
        /\ Returned(c) /\ Contains(calls[c].code, <<"loop">>)
        /\ calls[c].wait_exc.msg = ErrReadTimeout
        /\ "timeout" \notin DOMAIN ConfigOf(c)
        /\ calls[c].result.execution_time = 30

\* the trace positions of the log retrievals and of the removal of a call
LogAttempts(c) ==
    {i \in DOMAIN calls[c].trace : calls[c].trace[i] \in {"logs", "logs_retry"}}
RemoveAttempts(c) ==
    {i \in DOMAIN calls[c].trace : calls[c].trace[i] = "remove"}

\* C23: no container is created for auto-removal; the container of a call
\* exists until the engine's own remove, and every log retrieval of the call
\* precedes that remove.
C23_RemovedOnlyByEngineAfterLogs ==
    /\ \A ct \in containers : ~ ct.auto_remove
    /\ \A c \in Calls :
          /\ calls[c].made # None /\ RemoveAttempts(c) = {} =>
                 ContainerExists(calls[c].made)
          /\ \A i \in LogAttempts(c), j \in RemoveAttempts(c) : i < j
          /\ Done(c) /\ calls[c].container # None => RemoveAttempts(c) # {}

\* a call whose program exited with a failure status read the logs of its
\* container and removed the container afterwards
C23_Witness ==
    \E c \in Calls :
        /\ Returned(c) /\ calls[c].exit_code = 1
        /\ LogAttempts(c) # {} /\ RemoveAttempts(c) # {}
        /\ "remove" \notin calls[c].raised
        /\ ~ ContainerExists(calls[c].made)

\* C24: once the engine is constructed, no operation on it (execute and each
\* of its steps, get_language_info, validate_language_support,
\* get_supported_languages) changes the runtime connection handle or the
\* loaded configuration.
C24_HandleAndConfigReadOnly ==
    [][engine.pc = "constructed" => client' = client /\ config' = config]_vars

\* a Java program was prepared and run to success and a language was queried,
\* and the configuration is still the document that was loaded
C24_Witness ==
    /\ engine.pc = "constructed"
    /\ engine.answer.op = "get_language_info"
    /\ "image" \in DOMAIN engine.answer.info
    /\ \E c \in Calls :
          /\ Returned(c) /\ calls[c].result.success
          /\ calls[c].strategy = "java" /\ Ran(c, "prepare_code")
    /\ config = engine.file.doc

\* the code contains an entry-point declaration
HasEntryPoint(code) == Contains(code, <<"static", "void", "Main">>)

\* call c has prepared its code with the C# strategy and its workspace is
\* still there
CsharpPrepared(c) ==
    /\ calls[c].strategy = "c#"
    /\ Ran(c, "prepare_code") /\ "prepare_code" \notin calls[c].raised
    /\ ~ Ran(c, "cleanup_temp_directory")

\* C25: C# prepare writes Program.cs and Program.csproj, and Program.cs holds
\* the code wrapped in the generated entry point exactly when the code has no
\* entry-point declaration, and the code unchanged when it has one.
C25_WrappedExactlyWithoutEntryPoint ==
    \A c \in Calls :
        CsharpPrepared(c) =>
            LET files == fs[calls[c].temp_dir].files IN
            /\ {<<"Program", ".cs">>, <<"Program", ".csproj">>} \subseteq DOMAIN files
            /\ files[<<"Program", ".cs">>] =
                   IF HasEntryPoint(calls[c].code)
                   THEN calls[c].code
                   ELSE WrapHeader \o calls[c].code \o WrapFooter

\* modifiers that may stand between public and class
ClassModifiers == {"final", "abstract"}

\* positions of the word class in declarations  public [modifier...] class Name
PublicDeclarationAt(code) ==
    {k \in 2..(Len(code) - 1) :
        /\ code[k] = "class" /\ IsWord(code[k + 1])
        /\ \E i \in 1..(k - 1) :
              /\ code[i] = "public"
              /\ \A j \in (i + 1)..(k - 1) : code[j] \in ClassModifiers}

\* the name Java requires for the file: that of the first public class, or
\* of the first class when none is public
DeclaredClassName(code) ==
    IF PublicDeclarationAt(code) # {} THEN code[Min(PublicDeclarationAt(code)) + 1]
    ELSE IF ClassAt(code) # {} THEN code[Min(ClassAt(code)) + 1]
    ELSE ""

\* C26: Java prepare names the file after the first public class declaration
\* of the source when there is one, even after an earlier non-public class,
\* and after the first class otherwise; the file is <ClassName>.java and the
\* compile and run commands carry the same name.
C26_FileNamedAfterPublicClass ==
    \A c \in Calls :
        /\ calls[c].strategy = "java"
        /\ Ran(c, "prepare_code") /\ "prepare_code" \notin calls[c].raised
        =>
        LET name == DeclaredClassName(calls[c].code) IN
        /\ calls[c].prep_info.filename = <<name, ".java">>
        /\ calls[c].prep_info.compile_cmd =
               FormatClassName(ConfigOf(c).compile_command, name)
        /\ calls[c].prep_info.run_cmd = FormatClassName(ConfigOf(c).run_command, name)
        /\ ~ Ran(c, "cleanup_temp_directory") =>
               <<name, ".java">> \in DOMAIN fs[calls[c].temp_dir].files

\* C27: PythonExecutor.execute never raises for an error raised by the
\* snippet: it returns success = false with the exception's message as
\* error; and is_available() is true in every state.
C27_SnippetErrorsBecomeResults ==
    /\ python_is_available(py)
    /\ py.mode = "execute" /\ "exec" \in py.raised =>
          /\ py.pc = "returned"
          /\ ~ py.result.success
          /\ py.result.error = exec_restricted(py.code).raised.msg

\* the answer of a validate_language_support(language) query
Validated(language) ==
    /\ engine.answer.op = "validate_language_support"
    /\ engine.answer.language = language

\* would execute(code, language) be rejected as an unsupported language: no
\* configuration entry, or no strategy that can be built for it
RejectedByExecute(language) ==
    \/ "languages" \notin DOMAIN config
    \/ LowerWord(language) \notin DOMAIN config.languages
    \/ LowerWord(language) \notin Strategies

\* C28: validate_language_support(L) never raises, returns true only if
\* execute would not reject L as unsupported, and returns false otherwise.
C28_ValidateAgreesWithExecute ==
    \A language \in LanguageInputs :
        Validated(language) =>
            /\ engine.answer.raises = NoExc
            /\ engine.answer.flag = ~ RejectedByExecute(language)

\* C29: when the executor call of a handler has returned an ExecutionResult,
\* the handler returns that result's formatted summary, not the generic
\* failure message of its own exception path.
C29_HandlerReturnsFormattedResult ==
    app.handler.given =>
        /\ app.handler.pc = "returned"
        /\ app.handler.text = format_result(app.handler.result)
        /\ ~ StartsWith(app.handler.text, <<"Execution", "Failed:">>)

\* C30: each conversion request that reaches its backend call makes it with
\* the API key supplied in that same request, whatever other requests do in
\* between.
C30_RequestUsesItsOwnKey ==
    \A r \in Requests :
        Req(r).used # "None" => Req(r).used = KeyOf(r)

====
